---- MODULE Spec2Model ----
(***************************************************************************)
(* A model of jsonq: the query lexer, the recursive-descent path and       *)
(* filter parser, the evaluator, the type-safe getters and the selection   *)
(* context with its reflective extraction.                                 *)
(*                                                                         *)
(* Go strings are TLA+ strings; a query text is read rune by rune with     *)
(* SubSeq, so lexing and parsing work on the text itself.  JSON values are *)
(* the values encoding/json produces: nil, bool, float64, string,          *)
(* []interface{} and map[string]interface{}.                               *)
(***************************************************************************)
EXTENDS Integers, Sequences, FiniteSets, TLC

VARIABLES arch, root, call, ctx, target

vars == <<arch, root, call, ctx, target>>

(***************************************************************************)
(* Bounds of the model.                                                    *)
(***************************************************************************)
MaxDepth == 3
MaxLen == 3
MaxMixedLen == 2
MaxSel == 2

(***************************************************************************)
(* JSON values.  A float64 is held as twice its value, so that halves are  *)
(* exact: Num(5) is 2.5 and Num(-5) is -2.5.                               *)
(***************************************************************************)
Nil == [kind |-> "nil"]
Bool(b) == [kind |-> "bool", b |-> b]
Num(n2) == [kind |-> "float64", twice |-> n2]
Str(s) == [kind |-> "string", s |-> s]
Arr(items) == [kind |-> "[]interface {}", items |-> items]
Map(m) == [kind |-> "map[string]interface {}", m |-> m]

\* The %T of a value, as the error messages print it.
GoType(v) == IF v.kind = "nil" THEN "<nil>" ELSE v.kind

IsMap(v) == v.kind = "map[string]interface {}"
IsArr(v) == v.kind = "[]interface {}"

(***************************************************************************)
(* Errors: the kind of the error, the path it names and the dynamic type   *)
(* it reports.                                                             *)
(***************************************************************************)
Error(kind, path, type) == [kind |-> kind, path |-> path, type |-> type]
NoErr == Error("nil", "", "")
EOF == Error("EOF", "", "")
ErrorOptionalMissing == Error("optional element missing", "", "")

(***************************************************************************)
(* Runes.                                                                  *)
(***************************************************************************)
Letters ==
    {"a", "b", "c", "d", "e", "f", "g", "h", "i", "j", "k", "l", "m", "n", "o",
     "p", "q", "r", "s", "t", "u", "v", "w", "x", "y", "z"}
Digits == {"0", "1", "2", "3", "4", "5", "6", "7", "8", "9"}

IsLetter(r) == r \in Letters
IsDigit(r) == r \in Digits

DigitVal(r) ==
    CASE r = "0" -> 0 [] r = "1" -> 1 [] r = "2" -> 2 [] r = "3" -> 3
      [] r = "4" -> 4 [] r = "5" -> 5 [] r = "6" -> 6 [] r = "7" -> 7
      [] r = "8" -> 8 [] r = "9" -> 9

\* strconv.Atoi on a string of decimal digits.
RECURSIVE Atoi(_)
Atoi(number) ==
    IF Len(number) = 0 THEN 0
    ELSE 10 * Atoi(SubSeq(number, 1, Len(number) - 1))
         + DigitVal(SubSeq(number, Len(number), Len(number)))

(***************************************************************************)
(* Tokens and the lexer.                                                   *)
(***************************************************************************)
Token(type, strVal, int) == [Type |-> type, StrVal |-> strVal, Int |-> int]
Tok(type) == Token(type, "", 0)

\* unget is a *token: no element when nil, one when set.  ungets is a
\* history of the calls of Unget, kept for the proofs and read by no
\* operation: for each call, the number of tokens the slot held.
newLexer(input) == [input |-> input, pos |-> 0, unget |-> <<>>, ungets |-> <<>>]

\* ReadRune: the next rune and the lexer after it, or io.EOF.
ReadRune(l) ==
    IF l.pos < Len(l.input)
    THEN [r |-> SubSeq(l.input, l.pos + 1, l.pos + 1), err |-> NoErr,
          l |-> [l EXCEPT !.pos = l.pos + 1]]
    ELSE [r |-> "", err |-> EOF, l |-> l]

\* UnreadRune after a successful ReadRune.
UnreadRune(l) == [l EXCEPT !.pos = l.pos - 1]

SyntaxError(l) ==
    IF l.pos = 0
    THEN Error("syntax error", "", l.input)
    ELSE Error("syntax error", SubSeq(l.input, 1, l.pos),
               SubSeq(l.input, l.pos + 1, Len(l.input)))

LexOk(tok, l) == [tok |-> tok, err |-> NoErr, l |-> l]
LexErr(e, l) == [tok |-> Tok("nil"), err |-> e, l |-> l]

\* The loop that reads a quoted string up to its closing quote.
RECURSIVE ScanString(_, _)
ScanString(l, str) ==
    LET rd == ReadRune(l) IN
    IF rd.err # NoErr THEN LexErr(rd.err, rd.l)
    ELSE IF rd.r = "\"" THEN LexOk(Token("tString", str, 0), rd.l)
    ELSE ScanString(rd.l, str \o rd.r)

\* The loop that reads a bare identifier.
RECURSIVE ScanSymbol(_, _)
ScanSymbol(l, str) ==
    LET rd == ReadRune(l) IN
    IF rd.err # NoErr THEN LexOk(Token("tString", str, 0), rd.l)
    ELSE IF ~IsLetter(rd.r) /\ ~IsDigit(rd.r) /\ rd.r # "_"
    THEN LexOk(Token("tString", str, 0), UnreadRune(rd.l))
    ELSE ScanSymbol(rd.l, str \o rd.r)

\* The loop that reads a decimal numeral.
RECURSIVE ScanNumber(_, _)
ScanNumber(l, number) ==
    LET rd == ReadRune(l) IN
    IF rd.err # NoErr THEN LexOk(Token("tInt", "", Atoi(number)), rd.l)
    ELSE IF ~IsDigit(rd.r)
    THEN LexOk(Token("tInt", "", Atoi(number)), UnreadRune(rd.l))
    ELSE ScanNumber(rd.l, number \o rd.r)

\* return nil, l.SyntaxError()
LexSyntaxError(l) == LexErr(SyntaxError(l), l)

\* An operator of two runes, read after its first: "==", "&&", "||", "!=".
LexDouble(l, r, type) ==
    LET rd == ReadRune(l) IN
    IF rd.err # NoErr THEN LexErr(rd.err, rd.l)
    ELSE IF rd.r # r THEN LexSyntaxError(UnreadRune(rd.l))
    ELSE LexOk(Tok(type), rd.l)

\* "<" and ">" with their "<=" and ">=" forms.
LexRelational(l, type, typeEq) ==
    LET rd == ReadRune(l) IN
    IF rd.err # NoErr THEN LexOk(Tok(type), rd.l)
    ELSE IF rd.r = "=" THEN LexOk(Tok(typeEq), rd.l)
    ELSE LexOk(Tok(type), UnreadRune(rd.l))

\* The operator runes of the filter syntax: "&&", "||" and "!=", which need
\* their second rune, and "<", "<=", ">", ">=".
LexOperator(l, r) ==
    IF r \in {"<", ">"}
    THEN LexRelational(l, IF r = "<" THEN "tLt" ELSE "tGt",
                       IF r = "<" THEN "tLe" ELSE "tGe")
    ELSE LexDouble(l, IF r = "!" THEN "=" ELSE r,
                   CASE r = "&" -> "tAnd"
                     [] r = "|" -> "tOr"
                     [] r = "!" -> "tNeq")

\* The switch of Lexer.Get on the rune r, read from the lexer that is now l.
LexSwitch(r, l) ==
    CASE r = "." -> LexOk(Tok("tDot"), l)
      [] r = "[" -> LexOk(Tok("tLBracket"), l)
      [] r = "]" -> LexOk(Tok("tRBracket"), l)
      [] r = "?" -> LexOk(Tok("tQuestionMark"), l)
      [] r = "=" -> LexDouble(l, "=", "tEq")
      [] r = "\"" -> ScanString(l, "")
      [] r \in {"&", "|", "!", "<", ">"} -> LexOperator(l, r)
      [] OTHER ->
           IF IsLetter(r) THEN ScanSymbol(l, r)
           ELSE IF IsDigit(r) THEN ScanNumber(l, r)
           ELSE LexSyntaxError(UnreadRune(l))

\* Lexer.Get on a lexer with no pushed-back token.
LexRune(l) ==
    LET rd == ReadRune(l) IN
    IF rd.err # NoErr THEN LexErr(rd.err, rd.l) ELSE LexSwitch(rd.r, rd.l)

\* A Get that returns the pushed-back token and leaves it in the slot.
LexGet_KeepsSlot(l) ==
    IF Len(l.unget) # 0 THEN LexOk(l.unget[1], l) ELSE LexRune(l)

\* Lexer.Get: the pushed-back token when there is one, else the next token.
LexGet(l) ==
    IF Len(l.unget) # 0
    THEN LexOk(l.unget[1], [l EXCEPT !.unget = <<>>])
    ELSE LexRune(l)

\* Lexer.Unget.
LexUnget(l, t) ==
    [l EXCEPT !.unget = <<t>>, !.ungets = Append(@, Len(l.unget))]

(***************************************************************************)
(* The parsed query: a chain of key selections linked by left, the last    *)
(* one holding the filters.  left is a *query: no element when nil.        *)
(***************************************************************************)
Query(left, optional, key, filters) ==
    [left |-> left, optional |-> optional, key |-> key, filters |-> filters]

NoQuery == Query(<<>>, FALSE, "", <<>>)

Atom(type, strVal, intVal) == [Type |-> type, StrVal |-> strVal, IntVal |-> intVal]
NoAtom == Atom("nil", "", 0)

\* Right is a *atom: no element when nil.
Comparative(left, op, right) ==
    [node |-> "comparative", Left |-> left, Op |-> op, Right |-> right]

Logical(left, op, right) ==
    [node |-> "logical", Left |-> left, Op |-> op, Right |-> right]

NoFilter == Comparative(NoAtom, "nil", <<>>)

ParseOk(val, l) == [val |-> val, err |-> NoErr, l |-> l]
ParseErr(none, e, l) == [val |-> none, err |-> e, l |-> l]

\* parseAtom on the token it has read.
parseAtomToken(g) ==
    IF g.err # NoErr THEN ParseErr(NoAtom, g.err, g.l)
    ELSE CASE g.tok.Type = "tString" ->
                ParseOk(Atom("tString", g.tok.StrVal, 0), g.l)
           [] g.tok.Type = "tInt" ->
                ParseOk(Atom("tInt", "", g.tok.Int), g.l)
           [] OTHER -> ParseErr(NoAtom, SyntaxError(g.l), g.l)

parseAtom(l) == parseAtomToken(LexGet(l))

ComparisonOps == {"tEq", "tNeq", "tLt", "tLe", "tGt", "tGe"}

\* parseComparative on the right atom it has parsed.
parseComparativeRight(left, op, right) ==
    IF right.err # NoErr THEN ParseErr(NoFilter, right.err, right.l)
    ELSE ParseOk(Comparative(left.val, op, <<right.val>>), right.l)

\* parseComparative on the token it has read after the left atom.
parseComparativeOp(left, g) ==
    IF g.err # NoErr THEN ParseErr(NoFilter, g.err, g.l)
    ELSE IF g.tok.Type \in ComparisonOps
    THEN parseComparativeRight(left, g.tok.Type, parseAtom(g.l))
    ELSE ParseOk(Comparative(left.val, left.val.Type, <<>>), LexUnget(g.l, g.tok))

\* parseComparative on the left atom it has parsed.
parseComparativeLeft(left) ==
    IF left.err # NoErr THEN ParseErr(NoFilter, left.err, left.l)
    ELSE parseComparativeOp(left, LexGet(left.l))

parseComparative(l) == parseComparativeLeft(parseAtom(l))

\* The loop of parseLogical, entered with the filter parsed so far: on the
\* right operand, on the token before it, and as a whole.
RECURSIVE parseLogicalLoop(_, _)

\* A loop that binds && tighter than ||.
parseLogicalRight_AndBindsTighter(left, op, right) ==
    IF right.err # NoErr THEN ParseErr(NoFilter, right.err, right.l)
    ELSE parseLogicalLoop(right.l,
            IF op = "tAnd" /\ left.node = "logical" /\ left.Op = "tOr"
            THEN Logical(left.Left, "tOr", Logical(left.Right, "tAnd", right.val))
            ELSE Logical(left, op, right.val))

parseLogicalRight(left, op, right) ==
    IF right.err # NoErr THEN ParseErr(NoFilter, right.err, right.l)
    ELSE parseLogicalLoop(right.l, Logical(left, op, right.val))

parseLogicalToken(left, g) ==
    IF g.err # NoErr THEN ParseErr(NoFilter, g.err, g.l)
    ELSE CASE g.tok.Type = "tRBracket" -> ParseOk(left, g.l)
           [] g.tok.Type \in {"tAnd", "tOr"} ->
                parseLogicalRight(left, g.tok.Type, parseComparative(g.l))
           [] OTHER -> ParseErr(NoFilter, SyntaxError(g.l), g.l)

parseLogicalLoop(l, left) == parseLogicalToken(left, LexGet(l))

\* parseLogical on the first operand it has parsed.
parseLogicalLeft(left) ==
    IF left.err # NoErr THEN ParseErr(NoFilter, left.err, left.l)
    ELSE parseLogicalLoop(left.l, left.val)

parseLogical(l) == parseLogicalLeft(parseComparative(l))

\* The second loop of parseQuery, the filters of the last key: on the
\* filter it has parsed, on the token before it, and as a whole.
RECURSIVE parseFilters(_, _)
parseFiltersFilter(q, f) ==
    IF f.err # NoErr THEN ParseErr(NoQuery, f.err, f.l)
    ELSE parseFilters(f.l, [q EXCEPT !.filters = Append(q.filters, f.val)])

parseFiltersToken(q, g) ==
    IF g.err # NoErr
    THEN IF g.err = EOF THEN ParseOk(q, g.l) ELSE ParseErr(NoQuery, g.err, g.l)
    ELSE IF g.tok.Type # "tLBracket" THEN ParseErr(NoQuery, SyntaxError(g.l), g.l)
    ELSE parseFiltersFilter(q, parseLogical(g.l))

parseFilters(l, q) == parseFiltersToken(q, LexGet(l))

\* The first loop of parseQuery, the keys after the first one: on the key
\* token after a dot, on the token before it, and as a whole.
RECURSIVE parseKeys(_, _)
parseKeysKey(q, k) ==
    IF k.err # NoErr THEN ParseErr(NoQuery, k.err, k.l)
    ELSE IF k.tok.Type # "tString" THEN ParseErr(NoQuery, SyntaxError(k.l), k.l)
    ELSE parseKeys(k.l, Query(<<q>>, FALSE, k.tok.StrVal, <<>>))

parseKeysToken(q, g) ==
    IF g.err # NoErr
    THEN IF g.err # EOF THEN ParseErr(NoQuery, g.err, g.l) ELSE ParseOk(q, g.l)
    ELSE IF g.tok.Type # "tDot" THEN ParseOk(q, LexUnget(g.l, g.tok))
    ELSE parseKeysKey(q, LexGet(g.l))

parseKeys(l, q) == parseKeysToken(q, LexGet(l))

\* parseQuery after its first loop: the filters, unless the keys failed.
parseQueryKeys(keys) ==
    IF keys.err # NoErr THEN keys ELSE parseFilters(keys.l, keys.val)

\* parseQuery once the optional mark has been read: the first key.
parseFirstKey(g, optional) ==
    IF g.err # NoErr THEN ParseErr(NoQuery, g.err, g.l)
    ELSE IF g.tok.Type # "tString" THEN ParseErr(NoQuery, SyntaxError(g.l), g.l)
    ELSE parseQueryKeys(parseKeys(g.l, Query(<<>>, optional, g.tok.StrVal, <<>>)))

\* The first token of parseQuery: after a '?', the query is optional and
\* the token after it is the first key.
parseQuestionMark(g) ==
    IF g.err = NoErr /\ g.tok.Type = "tQuestionMark"
    THEN [g |-> LexGet(g.l), optional |-> TRUE]
    ELSE [g |-> g, optional |-> FALSE]

parseQueryFirst(m) == parseFirstKey(m.g, m.optional)

parseQuery(l) == parseQueryFirst(parseQuestionMark(LexGet(l)))

parse(q) == parseQuery(newLexer(q))

(***************************************************************************)
(* The text of a query, as the error messages print it.                    *)
(***************************************************************************)
RECURSIVE Itoa(_)
Itoa(n) ==
    IF n < 0 THEN "-" \o Itoa(-n)
    ELSE IF n < 10 THEN SubSeq("0123456789", n + 1, n + 1)
    ELSE Itoa(n \div 10) \o SubSeq("0123456789", (n % 10) + 1, (n % 10) + 1)

\* tokenType.String for the types the token table names.
TokenString(type) ==
    CASE type = "tDot" -> "."
      [] type = "tLBracket" -> "["
      [] type = "tRBracket" -> "]"
      [] type = "tQuestionMark" -> "?"
      [] type = "tAnd" -> "&&"
      [] type = "tOr" -> "||"
      [] type = "tEq" -> "=="
      [] type = "tNeq" -> "!="
      [] type = "tString" -> "string"
      [] type = "tInt" -> "int"
      [] OTHER -> "{TokenType " \o type \o "}"

Quote(str) == "\"" \o str \o "\""

AtomString(a) ==
    CASE a.Type = "tString" -> Quote(a.StrVal)
      [] a.Type = "tInt" -> Itoa(a.IntVal)
      [] OTHER -> "{atom " \o a.Type \o "}"

RECURSIVE FilterString(_)
FilterString(f) ==
    IF f.node = "logical"
    THEN FilterString(f.Left) \o TokenString(f.Op) \o FilterString(f.Right)
    ELSE AtomString(f.Left) \o TokenString(f.Op)
         \o (IF Len(f.Right) = 0 THEN "<nil>" ELSE AtomString(f.Right[1]))

RECURSIVE FiltersString(_)
FiltersString(filters) ==
    IF Len(filters) = 0 THEN ""
    ELSE "[" \o FilterString(Head(filters)) \o "]" \o FiltersString(Tail(filters))

RECURSIVE QueryString(_)
QueryString(q) ==
    (IF Len(q.left) # 0 THEN QueryString(q.left[1]) \o "." ELSE "")
    \o (IF q.optional THEN "?" ELSE "") \o Quote(q.key) \o FiltersString(q.filters)

(***************************************************************************)
(* int(v) of a float64.  The fraction is discarded; a value the int type   *)
(* cannot hold converts to a value that depends on the build: the minimum  *)
(* int on amd64, the nearest bound on arm64.  The int type is modelled     *)
(* with IntBits bits.                                                      *)
(***************************************************************************)
IntBits == 8
MaxInt == 2 ^ (IntBits - 1) - 1
MinInt == -(2 ^ (IntBits - 1))

Truncate(twice) == IF twice >= 0 THEN twice \div 2 ELSE -((-twice) \div 2)

FitsInt(twice) == Truncate(twice) >= MinInt /\ Truncate(twice) <= MaxInt

\* A conversion that rounds down instead of toward zero.
IntOf_Floor(twice) ==
    IF FitsInt(twice) THEN twice \div 2
    ELSE IF arch = "arm64" /\ twice > 0 THEN MaxInt
    ELSE MinInt

IntOf(twice) ==
    IF FitsInt(twice) THEN Truncate(twice)
    ELSE IF arch = "arm64" /\ twice > 0 THEN MaxInt
    ELSE MinInt

(***************************************************************************)
(* strings.Compare: the byte order of the runes in use.                    *)
(***************************************************************************)
RuneOrder == "\"0123456789?_abcdefghijklmnopqrstuvwxyz"

RuneCode(r) == CHOOSE i \in 1..Len(RuneOrder) : SubSeq(RuneOrder, i, i) = r

RECURSIVE Compare(_, _)
Compare(a, b) ==
    IF Len(a) = 0 THEN (IF Len(b) = 0 THEN 0 ELSE -1)
    ELSE IF Len(b) = 0 THEN 1
    ELSE LET ca == RuneCode(SubSeq(a, 1, 1))
             cb == RuneCode(SubSeq(b, 1, 1))
         IN IF ca < cb THEN -1
            ELSE IF ca > cb THEN 1
            ELSE Compare(SubSeq(a, 2, Len(a)), SubSeq(b, 2, Len(b)))

(***************************************************************************)
(* The evaluator and the type-safe getters.  A filter names its field by a *)
(* query of its own, so evaluation and the getters are mutually recursive. *)
(***************************************************************************)
Result(val, e) == [val |-> val, err |-> e]

RECURSIVE Eval(_, _)
RECURSIVE FilterEval(_, _, _)
RECURSIVE Get(_, _)
RECURSIVE GetString(_, _)
RECURSIVE GetNumber(_, _)
RECURSIVE GetInt(_, _)

\* atom.GetString
AtomGetString(a) ==
    IF a.Type = "tString" THEN Result(a.StrVal, NoErr)
    ELSE Result("", Error("not string value", "", TokenString(a.Type)))

\* atom.GetStringField, on the field name read from the atom and as a whole.
GetStringFieldNamed(field, value) ==
    IF field.err # NoErr THEN Result("", field.err)
    ELSE GetString(value, field.val)

GetStringField(a, value) == GetStringFieldNamed(AtomGetString(a), value)

\* atom.GetIntField, on the field name read from the atom and as a whole.
GetIntFieldNamed(field, value) ==
    IF field.err # NoErr THEN Result(0, field.err)
    ELSE GetInt(value, field.val)

GetIntField(a, value) == GetIntFieldNamed(AtomGetString(a), value)

\* The comparison of a string field with a string literal.
CompareStrings(op, val, lit) ==
    CASE op = "tEq" -> val = lit
      [] op = "tNeq" -> val # lit
      [] op = "tLt" -> Compare(val, lit) < 0
      [] op = "tLe" -> Compare(val, lit) <= 0
      [] op = "tGt" -> Compare(val, lit) > 0
      [] op = "tGe" -> Compare(val, lit) >= 0

\* A comparison of ints whose "<=" leaves out the equal values.
CompareInts_LeIsLt(op, val, lit) ==
    CASE op = "tEq" -> val = lit
      [] op = "tNeq" -> val # lit
      [] op = "tLt" -> val < lit
      [] op = "tLe" -> val < lit
      [] op = "tGt" -> val > lit
      [] op = "tGe" -> val >= lit

\* The comparison of an int field with an int literal.
CompareInts(op, val, lit) ==
    CASE op = "tEq" -> val = lit
      [] op = "tNeq" -> val # lit
      [] op = "tLt" -> val < lit
      [] op = "tLe" -> val <= lit
      [] op = "tGt" -> val > lit
      [] op = "tGe" -> val >= lit

\* comparative.Eval for a string literal, on the field it has read.
ComparativeEvalString(op, val, lit) ==
    IF val.err # NoErr THEN Result(FALSE, val.err)
    ELSE Result(CompareStrings(op, val.val, lit), NoErr)

\* comparative.Eval for an int literal, on the field it has read.
ComparativeEvalInt(op, val, lit) ==
    IF val.err # NoErr THEN Result(FALSE, val.err)
    ELSE Result(CompareInts(op, val.val, lit), NoErr)

\* An index that counts the candidates from one.
ComparativeEvalIndex_FromOne(ast, idx) == Result(idx + 1 = ast.Left.IntVal, NoErr)

\* comparative.Eval for a filter that is a single integer: the index.
ComparativeEvalIndex(ast, idx) == Result(idx = ast.Left.IntVal, NoErr)

\* comparative.Eval
ComparativeEval(ast, idx, v) ==
    IF ast.Op \in ComparisonOps
    THEN CASE ast.Right[1].Type = "tString" ->
                ComparativeEvalString(ast.Op, GetStringField(ast.Left, v),
                                      ast.Right[1].StrVal)
           [] ast.Right[1].Type = "tInt" ->
                ComparativeEvalInt(ast.Op, GetIntField(ast.Left, v),
                                   ast.Right[1].IntVal)
           [] OTHER ->
                Result(FALSE, Error("not implemented", TokenString(ast.Op),
                                    TokenString(ast.Right[1].Type)))
    ELSE IF ast.Op = "tInt" THEN ComparativeEvalIndex(ast, idx)
    ELSE Result(FALSE, Error("Comparative.Eval not implemented yet",
                             TokenString(ast.Op), ""))

\* logical.Eval on the values of both operands.
LogicalEvalRight(op, lVal, rVal) ==
    IF rVal.err # NoErr THEN Result(FALSE, rVal.err)
    ELSE CASE op = "tAnd" -> Result(lVal.val /\ rVal.val, NoErr)
           [] op = "tOr" -> Result(lVal.val \/ rVal.val, NoErr)
           [] OTHER -> Result(FALSE, Error("invalid logical operation",
                                           TokenString(op), ""))

\* logical.Eval on the value of the left operand: the right operand is
\* evaluated whatever the left one gave.
LogicalEvalLeft(ast, idx, v, lVal) ==
    IF lVal.err # NoErr THEN Result(FALSE, lVal.err)
    ELSE LogicalEvalRight(ast.Op, lVal, FilterEval(ast.Right, idx, v))

\* logical.Eval
LogicalEval(ast, idx, v) ==
    LogicalEvalLeft(ast, idx, v, FilterEval(ast.Left, idx, v))

\* filter.Eval, dispatched on the node.
FilterEval(f, idx, v) ==
    IF f.node = "logical" THEN LogicalEval(f, idx, v) ELSE ComparativeEval(f, idx, v)

\* The inner loop of query.Eval: one filter over the items from index idx
\* on, with the items kept so far; on the verdict for item idx, and as a
\* whole.
RECURSIVE ApplyFilter(_, _, _, _)

\* A loop that puts each item it keeps in front of the ones kept before.
ApplyFilterItem_Prepends(f, result, idx, filtered, ok) ==
    IF ok.err # NoErr THEN Result(<<>>, ok.err)
    ELSE ApplyFilter(f, result, idx + 1,
                     IF ok.val THEN <<result[idx + 1]>> \o filtered
                     ELSE filtered)

\* A loop that leaves out an element the filter cannot be evaluated on.
ApplyFilterItem_SkipsErrors(f, result, idx, filtered, ok) ==
    ApplyFilter(f, result, idx + 1,
                IF ok.err = NoErr /\ ok.val THEN Append(filtered, result[idx + 1])
                ELSE filtered)

ApplyFilterItem(f, result, idx, filtered, ok) ==
    IF ok.err # NoErr THEN Result(<<>>, ok.err)
    ELSE ApplyFilter(f, result, idx + 1,
                     IF ok.val THEN Append(filtered, result[idx + 1])
                     ELSE filtered)

ApplyFilter(f, result, idx, filtered) ==
    IF idx >= Len(result) THEN Result(filtered, NoErr)
    ELSE ApplyFilterItem(f, result, idx, filtered,
                         FilterEval(f, idx, result[idx + 1]))

\* The outer loop of query.Eval, the filters in order: on the items the
\* first filter kept, and as a whole.
RECURSIVE ApplyFilters(_, _)
ApplyFiltersNext(filters, next) ==
    IF next.err # NoErr THEN Result(Nil, next.err)
    ELSE ApplyFilters(Tail(filters), next.val)

\* An evaluation that applies the last filter to the items the key
\* selected, whatever the filters before it kept.
ApplyFilters_OnOriginal(filters, result) ==
    IF Len(filters) = 0 THEN Result(Arr(result), NoErr)
    ELSE ApplyFiltersNext(<<filters[Len(filters)]>>,
                          ApplyFilter(filters[Len(filters)], result, 0, <<>>))

ApplyFilters(filters, result) ==
    IF Len(filters) = 0 THEN Result(Arr(result), NoErr)
    ELSE ApplyFiltersNext(filters, ApplyFilter(Head(filters), result, 0, <<>>))

\* A key selection that reads the mapping without testing for the key, so
\* that a missing key reads as nil.
SelectByKey_NoOkCheck(q, v) ==
    IF ~IsMap(v)
    THEN Result(Nil, Error("can't index", QueryString(q), GoType(v)))
    ELSE LET child == IF q.key \in DOMAIN v.m THEN v.m[q.key] ELSE Nil IN
         IF Len(q.filters) = 0 THEN Result(child, NoErr)
         ELSE ApplyFilters(q.filters,
                           IF IsArr(child) THEN child.items ELSE <<child>>)

\* A key selection that does not look at the optional flag.
SelectByKey_IgnoresOptional(q, v) ==
    IF ~IsMap(v)
    THEN Result(Nil, Error("can't index", QueryString(q), GoType(v)))
    ELSE IF q.key \notin DOMAIN v.m
    THEN Result(Nil, Error("not found", QueryString(q), ""))
    ELSE LET child == v.m[q.key] IN
         IF Len(q.filters) = 0 THEN Result(child, NoErr)
         ELSE ApplyFilters(q.filters,
                           IF IsArr(child) THEN child.items ELSE <<child>>)

\* A selection that reports a value that is not a mapping as a missing key.
SelectByKey_NonMapIsMissing(q, v) ==
    IF ~IsMap(v) \/ q.key \notin DOMAIN v.m
    THEN IF q.optional THEN Result(Nil, ErrorOptionalMissing)
         ELSE Result(Nil, Error("not found", QueryString(q), ""))
    ELSE LET child == v.m[q.key] IN
         IF Len(q.filters) = 0 THEN Result(child, NoErr)
         ELSE ApplyFilters(q.filters,
                           IF IsArr(child) THEN child.items ELSE <<child>>)

\* The key selection of query.Eval on the value v reached so far.
SelectByKey(q, v) ==
    IF ~IsMap(v)
    THEN Result(Nil, Error("can't index", QueryString(q), GoType(v)))
    ELSE IF q.key \notin DOMAIN v.m
    THEN IF q.optional THEN Result(Nil, ErrorOptionalMissing)
         ELSE Result(Nil, Error("not found", QueryString(q), ""))
    ELSE LET child == v.m[q.key] IN
         IF Len(q.filters) = 0 THEN Result(child, NoErr)
         ELSE ApplyFilters(q.filters,
                           IF IsArr(child) THEN child.items ELSE <<child>>)

\* An evaluation that selects the last key on the root, without following
\* the chain of the keys before it.
Eval_IgnoresLeft(q, v) == SelectByKey(q, v)

\* query.Eval on the value its left query gave.
EvalLeft(q, left) ==
    IF left.err # NoErr THEN Result(Nil, left.err)
    ELSE SelectByKey(q, left.val)

\* query.Eval
Eval(q, v) ==
    EvalLeft(q, IF Len(q.left) # 0 THEN Eval(q.left[1], v) ELSE Result(v, NoErr))

\* Get on the parsed query.
GetParsed(value, query) ==
    IF query.err # NoErr THEN Result(Nil, query.err)
    ELSE Eval(query.val, value)

Get(value, q) == GetParsed(value, parse(q))

\* A type switch of GetString without the case for nil.
GetStringValue_NilIsError(q, v) ==
    IF v.err # NoErr THEN Result("", v.err)
    ELSE IF v.val.kind = "string" THEN Result(v.val.s, NoErr)
    ELSE Result("", Error("not string", q, GoType(v.val)))

\* GetString on what Get returned.
\* A GetString that takes the element of a sequence of one for the value.
GetStringValue_UnwrapsOne(q, v) ==
    IF v.err # NoErr THEN Result("", v.err)
    ELSE CASE v.val.kind = "string" -> Result(v.val.s, NoErr)
           [] v.val.kind = "nil" -> Result("", NoErr)
           [] IsArr(v.val) /\ Len(v.val.items) = 1
                /\ v.val.items[1].kind = "string" ->
                Result(v.val.items[1].s, NoErr)
           [] OTHER -> Result("", Error("not string", q, GoType(v.val)))

GetStringValue(q, v) ==
    IF v.err # NoErr THEN Result("", v.err)
    ELSE CASE v.val.kind = "string" -> Result(v.val.s, NoErr)
           [] v.val.kind = "nil" -> Result("", NoErr)
           [] OTHER -> Result("", Error("not string", q, GoType(v.val)))

GetString(value, q) == GetStringValue(q, Get(value, q))

\* GetNumber on what Get returned.
GetNumberValue(q, v) ==
    IF v.err # NoErr THEN Result(0, v.err)
    ELSE IF v.val.kind = "float64" THEN Result(v.val.twice, NoErr)
    ELSE Result(0, Error("not float64", q, GoType(v.val)))

GetNumber(value, q) == GetNumberValue(q, Get(value, q))

\* GetInt on what GetNumber returned.
GetIntValue(v) ==
    IF v.err # NoErr THEN Result(0, v.err)
    ELSE Result(IntOf(v.val), NoErr)

GetInt(value, q) == GetIntValue(GetNumber(value, q))

\* GetBool on what Get returned.
GetBoolValue(q, v) ==
    IF v.err # NoErr THEN Result(FALSE, v.err)
    ELSE IF v.val.kind = "bool" THEN Result(v.val.b, NoErr)
    ELSE Result(FALSE, Error("not bool", q, GoType(v.val)))

GetBool(value, q) == GetBoolValue(q, Get(value, q))

(***************************************************************************)
(* Go values as Extract sees them through reflect: the untyped nil, a      *)
(* struct, a pointer (nil or not), a slice with its element type, a        *)
(* scalar.  A struct type is its name and its fields, each with its jsonq  *)
(* tag and its kind.                                                       *)
(***************************************************************************)
Field(name, tag, kind) == [Name |-> name, Tag |-> tag, Kind |-> kind]
StructType(name, fields) == [kind |-> "struct", name |-> name, fields |-> fields]
PtrType(elem) == [kind |-> "ptr", elem |-> elem]
SliceType(elem) == [kind |-> "slice", elem |-> elem]
ScalarType(kind) == [kind |-> kind]

GoNil == [kind |-> "nil"]
StructVal(type, fields) == [kind |-> "struct", type |-> type, fields |-> fields]
PtrTo(v) == [kind |-> "ptr", isNil |-> FALSE, type |-> PtrType(v.type), elem |-> v]
NilPtr(type) == [kind |-> "ptr", isNil |-> TRUE, type |-> PtrType(type), elem |-> GoNil]
SliceVal(elemType, items) ==
    [kind |-> "slice", type |-> SliceType(elemType), items |-> items]
ScalarVal(kind) == [kind |-> kind, type |-> ScalarType(kind)]

\* The zero value of a field and of a struct, as reflect.New makes it.
ZeroField(f) == IF f.Kind = "string" THEN "" ELSE 0
Zero(type) == StructVal(type, [i \in 1..Len(type.fields) |-> ZeroField(type.fields[i])])

RECURSIVE TypeString(_)
TypeString(type) ==
    CASE type.kind = "struct" -> type.name
      [] type.kind = "ptr" -> "*" \o TypeString(type.elem)
      [] type.kind = "slice" -> "[]" \o TypeString(type.elem)
      [] OTHER -> type.kind

\* A run-time panic: the call does not return.
Panic(msg) == Error("panic", msg, "")

(***************************************************************************)
(* The extraction.                                                         *)
(***************************************************************************)
\* The loop of extractStruct from field i on: on the string read for
\* field i, and as a whole.
RECURSIVE extractFields(_, _, _)

\* A loop that returns the error of a missing optional element like any
\* other.
extractString_OptionalIsError(sel, value, i, val) ==
    IF val.err # NoErr THEN Result(value, val.err)
    ELSE extractFields(sel, [value EXCEPT !.fields[i] = val.val], i + 1)

extractString(sel, value, i, val) ==
    IF val.err = ErrorOptionalMissing THEN extractFields(sel, value, i + 1)
    ELSE IF val.err # NoErr THEN Result(value, val.err)
    ELSE extractFields(sel, [value EXCEPT !.fields[i] = val.val], i + 1)

\* A loop that checks the type of every field, annotated or not.
extractFields_ChecksEveryType(sel, value, i) ==
    IF i > Len(value.type.fields) THEN Result(value, NoErr)
    ELSE IF value.type.fields[i].Kind # "string"
    THEN Result(value, Error("field type not supported", "",
                             value.type.fields[i].Kind))
    ELSE IF Len(value.type.fields[i].Tag) = 0
    THEN extractFields(sel, value, i + 1)
    ELSE extractString(sel, value, i, GetString(sel, value.type.fields[i].Tag))

extractFields(sel, value, i) ==
    IF i > Len(value.type.fields) THEN Result(value, NoErr)
    ELSE IF Len(value.type.fields[i].Tag) = 0
    THEN extractFields(sel, value, i + 1)
    ELSE IF value.type.fields[i].Kind = "string"
    THEN extractString(sel, value, i, GetString(sel, value.type.fields[i].Tag))
    ELSE Result(value, Error("field type not supported", "",
                             value.type.fields[i].Kind))

extractStruct(sel, value) == extractFields(sel, value, 1)

RECURSIVE extract(_, _)

\* The loops of extract over the selection, for a slice of structs and for
\* a slice of pointers to structs, from element i on: on the element
\* extracted for selection[i], and as a whole.
RECURSIVE extractSlice(_, _, _, _)

\* A loop that puts every new element in front of the others.
extractElement_Prepends(selection, rv, pointed, i, v) ==
    IF v.err # NoErr THEN Result(rv, v.err)
    ELSE extractSlice(selection, rv,
            [pointed EXCEPT !.items =
                <<IF pointed.type.elem.kind = "ptr" THEN v.val ELSE v.val.elem>>
                    \o pointed.items],
            i + 1)

\* A loop that stores the records built so far when an element fails.
extractElement_KeepsBuilt(selection, rv, pointed, i, v) ==
    IF v.err # NoErr THEN Result([rv EXCEPT !.elem = pointed], v.err)
    ELSE extractSlice(selection, rv,
            [pointed EXCEPT !.items =
                Append(pointed.items,
                       IF pointed.type.elem.kind = "ptr" THEN v.val ELSE v.val.elem)],
            i + 1)

extractElement(selection, rv, pointed, i, v) ==
    IF v.err # NoErr THEN Result(rv, v.err)
    ELSE extractSlice(selection, rv,
            [pointed EXCEPT !.items =
                Append(pointed.items,
                       IF pointed.type.elem.kind = "ptr" THEN v.val ELSE v.val.elem)],
            i + 1)

\* reflect.New of the struct type of the elements.
NewElement(elemType) ==
    PtrTo(Zero(IF elemType.kind = "ptr" THEN elemType.elem ELSE elemType))

extractSlice(selection, rv, pointed, i) ==
    IF i > Len(selection) THEN Result([rv EXCEPT !.elem = pointed], NoErr)
    ELSE extractElement(selection, rv, pointed, i,
                        extract(<<selection[i]>>, NewElement(pointed.type.elem)))

\* The struct case of extract: the fields set before an error stay set.
extractPointedStruct(rv, r) == Result([rv EXCEPT !.elem = r.val], r.err)

\* A struct case that fills the struct from the first element of a longer
\* selection.
extractSingle_TakesFirst(selection, rv) ==
    extractPointedStruct(rv, extractStruct(selection[1], rv.elem))

\* The struct case of extract, on a selection that is not empty.
extractSingle(selection, rv) ==
    IF Len(selection) # 1
    THEN Result(rv, Error("selection matches more than one item", "", ""))
    ELSE extractPointedStruct(rv, extractStruct(selection[1], rv.elem))

extract(selection, rv) ==
    IF rv.kind = "nil"
    THEN Result(rv, Panic("reflect: call of reflect.Value.Type on zero Value"))
    ELSE IF rv.kind # "ptr" \/ rv.isNil
    THEN Result(rv, Error("Extract", "", TypeString(rv.type)))
    ELSE IF Len(selection) = 0
    THEN Result(rv, Error("empty selection", "", ""))
    ELSE CASE rv.elem.kind = "ptr" ->
                Result(rv, Error("pointers not implemented yet", "", ""))
           [] rv.elem.kind = "struct" -> extractSingle(selection, rv)
           [] rv.elem.kind = "slice" ->
                IF /\ rv.elem.type.elem.kind = "ptr"
                   /\ rv.elem.type.elem.elem.kind # "struct"
                THEN Result(rv, Error("slice with invalid pointer type", "",
                                      rv.elem.type.elem.elem.kind))
                ELSE IF rv.elem.type.elem.kind \in {"ptr", "struct"}
                THEN extractSlice(selection, rv, rv.elem, 1)
                ELSE Result(rv, Error("unsupport slice element type", "",
                                      rv.elem.type.elem.kind))
           [] OTHER -> Result(rv, Error("pointed", "", TypeString(rv.elem.type)))

(***************************************************************************)
(* The selection context.                                                  *)
(***************************************************************************)
Context(selection, err) == [selection |-> selection, err |-> err]

Ctx(v) == Context(<<v>>, NoErr)

\* The loop of Context.Select from element i on, with the result so far:
\* on the value Get gave for element i, and as a whole.
RECURSIVE selectLoop(_, _, _, _)

\* A loop that appends a sequence result as one element.
selectValue_NoFlatten(sel, q, i, result, value) ==
    IF value.err # NoErr THEN Context(sel, value.err)
    ELSE selectLoop(sel, q, i + 1, Append(result, value.val))

selectValue(sel, q, i, result, value) ==
    IF value.err # NoErr THEN Context(sel, value.err)
    ELSE selectLoop(sel, q, i + 1,
                    IF IsArr(value.val) THEN result \o value.val.items
                    ELSE Append(result, value.val))

selectLoop(sel, q, i, result) ==
    IF i > Len(sel) THEN Context(result, NoErr)
    ELSE selectValue(sel, q, i, result, Get(sel[i], q))

\* A Select that evaluates the path whatever the stored error.
Select_IgnoresError(c, q) == selectLoop(c.selection, q, 1, <<>>)

\* A Select that parses its path before it looks at the selection.
Select_ParsesFirst(c, q) ==
    IF c.err # NoErr THEN c
    ELSE IF parse(q).err # NoErr THEN Context(c.selection, parse(q).err)
    ELSE selectLoop(c.selection, q, 1, <<>>)

\* Context.Select
Select(c, q) ==
    IF c.err # NoErr THEN c ELSE selectLoop(c.selection, q, 1, <<>>)

\* An Extract that looks at the target before the stored error.
Extract_TargetFirst(c, v) ==
    IF v.kind # "nil" /\ (v.kind # "ptr" \/ v.isNil)
    THEN Result(v, Error("Extract", "", TypeString(v.type)))
    ELSE IF c.err # NoErr THEN Result(v, c.err) ELSE extract(c.selection, v)

\* Context.Extract
Extract(c, v) ==
    IF c.err # NoErr THEN Result(v, c.err) ELSE extract(c.selection, v)

(***************************************************************************)
(* The inputs: JSON roots and query texts.                                 *)
(***************************************************************************)
Archs == {"amd64", "arm64"}

Keys == {"a", "b"}

OtherKey(k) == IF k = "a" THEN "b" ELSE "a"

\* The values stored at the end of a path: one of every dynamic type, a
\* number with a fraction, and a number no int can hold.
Leaves ==
    {Nil, Bool(TRUE), Bool(FALSE), Num(84), Num(-5), Num(2 * (MaxInt + 1)),
     Str("x"), Arr(<<Str("x")>>), Map(<<>>)}

KeyPaths == UNION {[1..n -> Keys] : n \in 1..MaxDepth}

\* The mappings nested along path down to leaf; with sibling, every mapping
\* on the way also holds the other key, with a string.
RECURSIVE Nest(_, _, _)
Nest(path, leaf, sibling) ==
    IF Len(path) = 0 THEN leaf
    ELSE LET m == path[1] :> Nest(Tail(path), leaf, sibling) IN
         Map(IF sibling THEN m @@ (OtherKey(path[1]) :> Str("s")) ELSE m)

PathRoots ==
    Leaves \cup {Nest(path, leaf, sibling) :
                    path \in KeyPaths, leaf \in Leaves, sibling \in BOOLEAN}

RECURSIVE JoinPath(_)
JoinPath(path) ==
    IF Len(path) = 1 THEN path[1]
    ELSE path[1] \o "." \o JoinPath(Tail(path))

\* Texts that are not dotted paths of bare keys.
OtherQueries == {"", "?", "a.", "a..b", ".a", "\"a\".b", "a b", "1", "a=b"}

PathQueries ==
    {JoinPath(path) : path \in KeyPaths}
    \cup {"?" \o JoinPath(path) : path \in KeyPaths}
    \cup OtherQueries

\* The elements of the sequences: mappings with a string k and an integer
\* p, and elements a filter on k or p cannot read.
Item(k, p) == Map(("k" :> Str(k)) @@ ("p" :> Num(2 * p)))

GoodItems == {Item("x", 4), Item("y", 5), Item("xy", 6), Item("x", 6)}

BadItems ==
    {Map("p" :> Num(10)), Str("x"), Map(("k" :> Num(10)) @@ ("p" :> Str("x"))),
     Map(("k" :> Nil) @@ ("p" :> Nil))}

Items == GoodItems \cup BadItems

Seqs(S, n) == UNION {[1..m -> S] : m \in 0..n}

Items_(v) == Map("items" :> v)

\* The roots of the filters: the sequences of readable elements up to
\* MaxLen, the sequences of any elements up to MaxMixedLen, and a single
\* element in the place of the sequence.
SeqRoots ==
    {Items_(Arr(s)) : s \in Seqs(GoodItems, MaxLen) \cup Seqs(Items, MaxMixedLen)}
    \cup {Items_(e) : e \in Items}

OpTexts == {"==", "!=", "<", "<=", ">", ">="}
StringLits == {"x", "xy"}
IntLits == {5, 6}

FilterText(field, op, lit) == "[" \o field \o op \o lit \o "]"

CompareQueries ==
    {"items" \o FilterText("k", op, Quote(lit)) : op \in OpTexts, lit \in StringLits}
    \cup {"items" \o FilterText("p", op, Itoa(n)) : op \in OpTexts, n \in IntLits}

Indexes == {0, 1}

IndexText(n) == "[" \o Itoa(n) \o "]"

\* The queries an index filter is appended to.
BaseQueries ==
    {"items", "items[0]", "items[1]", "items[k==\"x\"]", "items[k==\"y\"]",
     "items[k==x]", "items[p==6]", "items[k==\"x\"][p==6]"}

IndexQueries == {base \o IndexText(n) : base \in BaseQueries, n \in Indexes}

OtherFilterQueries ==
    {"items[k]", "items[\"k\"]", "items[k==\"x\"||p>=6]",
     "items[k!=\"x\"][0]", "items[p<6][1]",
     "items[k==\"x\"&&p>=6]", "items[k==\"x\"||k==\"y\"&&p>5]",
     "items[p==4&&k==\"x\"||k==\"y\"]",
     "items[k==", "items[", "items[0", "items[]", "items[k=\"x\"]",
     "items[k==\"x]", "items[0]]", "?items[0]", "?zz[0]", "zz[0]", "items[zz==\"x\"]",
     "", "?", "items.", "\"items", "items=", "items=0", "items]", "items[0].k"}

FilterQueries == CompareQueries \cup IndexQueries \cup OtherFilterQueries

\* The queries the typed getters are called with on the sequences.
TypedFilterQueries ==
    {"items[0]", "items[k==\"x\"]", "items[k==\"x\"][0]", "items[p<6]", "items",
     "items[0].k", "items[zz==\"x\"]"}

\* The roots and the queries of the selection context.
\* An element that holds a sequence, one of whose elements is a sequence.
Nested ==
    Map(("k" :> Str("y")) @@ ("items" :> Arr(<<Str("x"), Arr(<<Str("y")>>)>>)))

CtxItems == {Item("x", 4), Item("y", 5), Map("p" :> Num(10)), Str("x"), Nested}

CtxRoots == {Items_(Arr(s)) : s \in Seqs(CtxItems, MaxSel)}

SelectQueries ==
    {"items", "items[k==\"x\"]", "items[k==\"x\"][0]", "items[0]", "items[p>4]",
     "k", "?k", "?zz", "p", "", "items["}

\* The struct types of the targets.
Assignment ==
    StructType("Assignment",
               <<Field("From", "?zz", "string"), Field("To", "k", "string"),
                 Field("ID", "?k", "string")>>)

Record ==
    StructType("Record",
               <<Field("Key", "k", "string"), Field("Count", "", "int"),
                 Field("Prio", "p", "string"), Field("Last", "?k", "string")>>)

Typed ==
    StructType("Typed",
               <<Field("Key", "k", "string"), Field("Note", "", "string"),
                 Field("Prio", "p", "int"), Field("Last", "k", "string")>>)

Whole ==
    StructType("Whole", <<Field("First", "?items.k", "string"),
                          Field("Items", "?zz.k", "string")>>)

StructTypes == {Assignment, Record, Typed, Whole}

\* A struct the caller has filled before the call.
Filled(type) ==
    StructVal(type, [i \in 1..Len(type.fields) |->
                        IF type.fields[i].Kind = "string" THEN "old" ELSE 7])

Targets ==
    {GoNil, Filled(Assignment), NilPtr(Assignment), PtrTo(PtrTo(Filled(Assignment))),
     PtrTo(ScalarVal("int")), PtrTo(SliceVal(ScalarType("string"), <<>>)),
     PtrTo(SliceVal(PtrType(ScalarType("int")), <<>>))}
    \cup {PtrTo(Filled(type)) : type \in StructTypes}
    \cup {PtrTo(SliceVal(type, <<>>)) : type \in {Assignment, Record}}
    \cup {PtrTo(SliceVal(Assignment, <<Filled(Assignment)>>)),
          PtrTo(SliceVal(PtrType(Assignment), <<>>)),
          PtrTo(SliceVal(PtrType(Assignment), <<PtrTo(Filled(Assignment))>>))}

(***************************************************************************)
(* The calls of the getters.  call records the last call: the function,    *)
(* its query and what it returned.                                         *)
(***************************************************************************)
Call(op, q, r) == [op |-> op, q |-> q, val |-> r.val, err |-> r.err]
NoCall == Call("none", "", Result(Nil, NoErr))

CallGet(queries) ==
    /\ call = NoCall
    /\ \E q \in queries : call' = Call("Get", q, Get(root, q))
    /\ UNCHANGED <<arch, root, ctx, target>>

CallGetString(queries) ==
    /\ call = NoCall
    /\ \E q \in queries : call' = Call("GetString", q, GetString(root, q))
    /\ UNCHANGED <<arch, root, ctx, target>>

CallGetNumber(queries) ==
    /\ call = NoCall
    /\ \E q \in queries : call' = Call("GetNumber", q, GetNumber(root, q))
    /\ UNCHANGED <<arch, root, ctx, target>>

CallGetInt(queries) ==
    /\ call = NoCall
    /\ \E q \in queries : call' = Call("GetInt", q, GetInt(root, q))
    /\ UNCHANGED <<arch, root, ctx, target>>

CallGetBool(queries) ==
    /\ call = NoCall
    /\ \E q \in queries : call' = Call("GetBool", q, GetBool(root, q))
    /\ UNCHANGED <<arch, root, ctx, target>>

\* The caller takes the result; the next call can be made.
Return ==
    /\ call # NoCall
    /\ call.err.kind # "panic"
    /\ call' = NoCall
    /\ target' = GoNil
    /\ UNCHANGED <<arch, root, ctx>>

(***************************************************************************)
(* The calls on the sequences: Get with every filter query, the typed      *)
(* getters with some.                                                      *)
(***************************************************************************)
FilterGet == CallGet(FilterQueries)
FilterGetString == CallGetString(TypedFilterQueries)
FilterGetNumber == CallGetNumber(TypedFilterQueries)
FilterGetInt == CallGetInt(TypedFilterQueries)
FilterGetBool == CallGetBool(TypedFilterQueries)

(***************************************************************************)
(* The calls on the selection context.  For Extract, call records the      *)
(* target as the caller passed it and target what the call left in it.     *)
(***************************************************************************)
DoSelect ==
    /\ call = NoCall
    /\ \E q \in SelectQueries :
          /\ ctx' = Select(ctx, q)
          /\ call' = Call("Select", q, Result(Nil, ctx'.err))
    /\ UNCHANGED <<arch, root, target>>

\* Extract returns: r holds the target as the call left it, and the error.
ExtractReturns(v, r) ==
    /\ target' = r.val
    /\ call' = Call("Extract", "", Result(v, r.err))

DoExtract ==
    /\ call = NoCall
    /\ \E v \in Targets :
          ExtractReturns(v, Extract(ctx, v))
    /\ UNCHANGED <<arch, root, ctx>>

DoGet == CallGet(PathQueries)
DoGetString == CallGetString(PathQueries)
DoGetNumber == CallGetNumber(PathQueries)
DoGetInt == CallGetInt(PathQueries)
DoGetBool == CallGetBool(PathQueries)

Init ==
    /\ arch \in Archs
    /\ root \in PathRoots
    /\ call = NoCall
    /\ ctx = Ctx(root)
    /\ target = GoNil

Next == DoGet \/ DoGetString \/ DoGetNumber \/ DoGetInt \/ DoGetBool \/ Return

Spec == Init /\ [][Next]_vars

\* The getters on the sequences.
InitFilter ==
    /\ arch \in Archs
    /\ root \in SeqRoots
    /\ call = NoCall
    /\ ctx = Ctx(root)
    /\ target = GoNil

NextFilter ==
    \/ FilterGet
    \/ FilterGetString
    \/ FilterGetNumber
    \/ FilterGetInt
    \/ FilterGetBool
    \/ Return

SpecFilter == InitFilter /\ [][NextFilter]_vars

\* The selection context: Ctx(root), then Select and Extract in any order.
InitCtx ==
    /\ arch \in Archs
    /\ root \in CtxRoots
    /\ call = NoCall
    /\ ctx = Ctx(root)
    /\ target = GoNil

NextCtx == DoSelect \/ DoExtract \/ Return

SpecCtx == InitCtx /\ [][NextCtx]_vars

(***************************************************************************)
(* Get, one loop iteration at a time.  While the call runs, call holds its *)
(* position pc, the lexer l, the query parsed so far, the filter parsed so *)
(* far, and for the evaluation the items the current filter is applied to, *)
(* the number fi of that filter, the index idx of the next item, the items *)
(* kept so far, and evals, the number of calls of filter.Eval made.        *)
(***************************************************************************)
StepTexts ==
    {"items", "?items", "items.k", "?zz", "items[0]", "items[k==\"x\"]",
     "items[k==\"x\"][0]", "items[p>4][1]", "items[k==\"x\"||k==\"y\"&&p>4]",
     "items[k]", "", "?", "items.", "items..k", "items[", "items]", "items=",
     "items[0].k", "items[k==\"x\"&&]", "items[k==\"x\"p]"}

StepItems == {Item("x", 4), Item("y", 5), Str("x")}

StepRoots ==
    {Items_(Arr(s)) : s \in Seqs(StepItems, MaxSel)} \cup {Items_(Str("x")), Str("x")}

Stepping(q) ==
    [op |-> "Get", q |-> q, pc |-> "start", l |-> newLexer(q), query |-> NoQuery,
     filter |-> NoFilter, items |-> <<>>, fi |-> 1, idx |-> 0, filtered |-> <<>>,
     evals |-> 0, val |-> Nil, err |-> NoErr]

Done(c, val, err) == [c EXCEPT !.pc = "done", !.val = val, !.err = err]

At_(pc) == call # NoCall /\ call.pc = pc

\* parseQuery up to its first loop: the optional mark and the first key.
FirstKey(c, m) ==
    IF m.g.err # NoErr THEN Done(c, Nil, m.g.err)
    ELSE IF m.g.tok.Type # "tString" THEN Done(c, Nil, SyntaxError(m.g.l))
    ELSE [c EXCEPT !.pc = "keys", !.l = m.g.l,
                   !.query = Query(<<>>, m.optional, m.g.tok.StrVal, <<>>)]

\* One iteration of the key loop of parseQuery: on the token after the
\* dot, and on the token the iteration starts with.
KeyAfterDot(c, k) ==
    IF k.err # NoErr THEN Done(c, Nil, k.err)
    ELSE IF k.tok.Type # "tString" THEN Done(c, Nil, SyntaxError(k.l))
    ELSE [c EXCEPT !.l = k.l, !.query = Query(<<c.query>>, FALSE, k.tok.StrVal, <<>>)]

\* A key loop that pushes the dot back and goes round again.
KeyToken_PushesDotBack(c, g) ==
    IF g.err # NoErr
    THEN IF g.err # EOF THEN Done(c, Nil, g.err)
         ELSE [c EXCEPT !.pc = "filters", !.l = g.l]
    ELSE IF g.tok.Type # "tDot"
    THEN [c EXCEPT !.pc = "filters", !.l = LexUnget(g.l, g.tok)]
    ELSE [c EXCEPT !.l = LexUnget(g.l, g.tok)]

KeyToken(c, g) ==
    IF g.err # NoErr
    THEN IF g.err # EOF THEN Done(c, Nil, g.err)
         ELSE [c EXCEPT !.pc = "filters", !.l = g.l]
    ELSE IF g.tok.Type # "tDot"
    THEN [c EXCEPT !.pc = "filters", !.l = LexUnget(g.l, g.tok)]
    ELSE KeyAfterDot(c, LexGet(g.l))

\* One iteration of the filter loop of parseQuery, up to the loop of
\* parseLogical: on the first comparative, and on the token the iteration
\* starts with.
FilterLeft(c, left) ==
    IF left.err # NoErr THEN Done(c, Nil, left.err)
    ELSE [c EXCEPT !.pc = "logical", !.l = left.l, !.filter = left.val]

FilterToken(c, g) ==
    IF g.err # NoErr
    THEN IF g.err = EOF THEN [c EXCEPT !.pc = "eval", !.l = g.l]
         ELSE Done(c, Nil, g.err)
    ELSE IF g.tok.Type # "tLBracket" THEN Done(c, Nil, SyntaxError(g.l))
    ELSE FilterLeft(c, parseComparative(g.l))

\* One iteration of the loop of parseLogical: on the right comparative, and
\* on the token the iteration starts with.  At the ']' the filter is
\* complete and the filter loop of parseQuery appends it.
LogicalRight(c, op, right) ==
    IF right.err # NoErr THEN Done(c, Nil, right.err)
    ELSE [c EXCEPT !.l = right.l, !.filter = Logical(c.filter, op, right.val)]

LogicalToken(c, g) ==
    IF g.err # NoErr THEN Done(c, Nil, g.err)
    ELSE CASE g.tok.Type = "tRBracket" ->
                [c EXCEPT !.pc = "filters", !.l = g.l,
                          !.query.filters = Append(@, c.filter)]
           [] g.tok.Type \in {"tAnd", "tOr"} ->
                LogicalRight(c, g.tok.Type, parseComparative(g.l))
           [] OTHER -> Done(c, Nil, SyntaxError(g.l))

\* query.Eval up to its loops, on the value its left query gave.
Selected(c, left) ==
    IF left.err # NoErr THEN Done(c, Nil, left.err)
    ELSE IF ~IsMap(left.val)
    THEN Done(c, Nil, Error("can't index", QueryString(c.query), GoType(left.val)))
    ELSE IF c.query.key \notin DOMAIN left.val.m
    THEN Done(c, Nil, IF c.query.optional THEN ErrorOptionalMissing
                      ELSE Error("not found", QueryString(c.query), ""))
    ELSE IF Len(c.query.filters) = 0
    THEN Done(c, left.val.m[c.query.key], NoErr)
    ELSE [c EXCEPT !.pc = "items",
                   !.items = IF IsArr(left.val.m[c.query.key])
                             THEN left.val.m[c.query.key].items
                             ELSE <<left.val.m[c.query.key]>>]

\* One iteration of the inner loop of query.Eval, on what the filter gave
\* for the item.
ItemTested(c, ok) ==
    IF ok.err # NoErr THEN Done([c EXCEPT !.evals = @ + 1], Nil, ok.err)
    ELSE [c EXCEPT !.idx = @ + 1, !.evals = @ + 1,
                   !.filtered = IF ok.val THEN Append(@, c.items[c.idx + 1]) ELSE @]

\* The end of an iteration of the outer loop of query.Eval: the items kept
\* are the items of the next filter, or the result.
FilterApplied(c) ==
    IF c.fi = Len(c.query.filters) THEN Done(c, Arr(c.filtered), NoErr)
    ELSE [c EXCEPT !.items = c.filtered, !.filtered = <<>>, !.fi = @ + 1, !.idx = 0]

BeginGet ==
    /\ call = NoCall
    /\ \E q \in StepTexts : call' = Stepping(q)
    /\ UNCHANGED <<arch, root, ctx, target>>

StepFirstKey ==
    /\ At_("start")
    /\ call' = FirstKey(call, parseQuestionMark(LexGet(call.l)))
    /\ UNCHANGED <<arch, root, ctx, target>>

StepKey ==
    /\ At_("keys")
    /\ call' = KeyToken(call, LexGet(call.l))
    /\ UNCHANGED <<arch, root, ctx, target>>

StepFilter ==
    /\ At_("filters")
    /\ call' = FilterToken(call, LexGet(call.l))
    /\ UNCHANGED <<arch, root, ctx, target>>

StepLogical ==
    /\ At_("logical")
    /\ call' = LogicalToken(call, LexGet(call.l))
    /\ UNCHANGED <<arch, root, ctx, target>>

StepSelect ==
    /\ At_("eval")
    /\ call' = Selected(call, IF Len(call.query.left) # 0
                              THEN Eval(call.query.left[1], root)
                              ELSE Result(root, NoErr))
    /\ UNCHANGED <<arch, root, ctx, target>>

StepItem ==
    /\ At_("items")
    /\ call.idx < Len(call.items)
    /\ call' = ItemTested(call, FilterEval(call.query.filters[call.fi], call.idx,
                                           call.items[call.idx + 1]))
    /\ UNCHANGED <<arch, root, ctx, target>>

StepNextFilter ==
    /\ At_("items")
    /\ call.idx >= Len(call.items)
    /\ call' = FilterApplied(call)
    /\ UNCHANGED <<arch, root, ctx, target>>

\* The call returns.
StepReturn ==
    /\ At_("done")
    /\ call' = NoCall
    /\ UNCHANGED <<arch, root, ctx, target>>

InitStep ==
    /\ arch \in Archs
    /\ root \in StepRoots
    /\ call = NoCall
    /\ ctx = Ctx(root)
    /\ target = GoNil

NextStep ==
    \/ BeginGet
    \/ StepFirstKey
    \/ StepKey
    \/ StepFilter
    \/ StepLogical
    \/ StepSelect
    \/ StepItem
    \/ StepNextFilter
    \/ StepReturn

\* A call that has started runs on: the code is sequential and takes its
\* next step whenever it has one.  This is the weak fairness of the steps
\* of a running call, WF_vars(Running /\ NextStep), with its ENABLED written
\* as the state predicate it is: every position of a running call has a
\* step (HasStep), and every step changes the position, the lexer or the
\* item counter.
Running == call # NoCall

HasStep ==
    Running => \/ call.pc \in {"start", "keys", "filters", "logical", "eval", "done"}
               \/ call.pc = "items" /\ call.idx <= Len(call.items)

RunsOn == []<>(~Running) \/ []<><<Running /\ NextStep>>_vars

SpecStep == InitStep /\ [][NextStep]_vars /\ RunsOn

(***************************************************************************)
(* What the claims refer to: the location a dotted path names in a root,   *)
(* read off the nested mappings directly.                                  *)
(***************************************************************************)
RECURSIVE Present(_, _)
Present(v, path) ==
    \/ Len(path) = 0
    \/ /\ IsMap(v)
       /\ path[1] \in DOMAIN v.m
       /\ Present(v.m[path[1]], Tail(path))

RECURSIVE ValueAt(_, _)
ValueAt(v, path) ==
    IF Len(path) = 0 THEN v ELSE ValueAt(v.m[path[1]], Tail(path))

Prefix(path, n) == SubSeq(path, 1, n)

\* Segment i of path is the first whose key is missing: the segments before
\* it lead to a mapping, and that mapping lacks the key.
MissingAt(v, path, i) ==
    /\ Present(v, Prefix(path, i - 1))
    /\ IsMap(ValueAt(v, Prefix(path, i - 1)))
    /\ path[i] \notin DOMAIN ValueAt(v, Prefix(path, i - 1)).m

IsOptionalText(q) == Len(q) > 0 /\ SubSeq(q, 1, 1) = "?"

Getters == {"Get", "GetString", "GetNumber", "GetInt", "GetBool"}

(***************************************************************************)
(* C1: Get with a filter-free dotted path whose keys all exist along       *)
(* nested mappings returns exactly the value stored there and no error;    *)
(* the call leaves the root as it was, and the same call on the root after *)
(* it gives the same result.                                               *)
(***************************************************************************)
C1_GetReturnsStoredValue ==
    [][\A path \in KeyPaths :
          (call'.op = "Get" /\ call'.q = JoinPath(path) /\ Present(root, path))
          => /\ call'.err = NoErr
             /\ call'.val = ValueAt(root, path)
             /\ root' = root
             /\ Get(root', call'.q) = Result(call'.val, call'.err)]_vars

C1_Witness ==
    /\ call.op = "Get"
    /\ \E path \in KeyPaths :
          /\ Len(path) = MaxDepth
          /\ call.q = JoinPath(path)
          /\ Present(root, path)
    /\ call.err = NoErr
    /\ call.val = Num(84)

(***************************************************************************)
(* C2: Get with a path that has no '?' prefix returns a not-found error    *)
(* and no value when the key of some segment, first, middle or last, is    *)
(* missing from the mapping reached so far.                                *)
(***************************************************************************)
C2_MissingKeyNotFound ==
    \A path \in KeyPaths :
       (/\ call.op = "Get"
        /\ call.q = JoinPath(path)
        /\ \E i \in 1..Len(path) : MissingAt(root, path, i))
       => call.err.kind = "not found" /\ call.val = Nil

\* A key missing in the middle of a three-segment path.
C2_Witness ==
    /\ call.op = "Get"
    /\ \E path \in KeyPaths :
          /\ Len(path) = 3
          /\ call.q = JoinPath(path)
          /\ MissingAt(root, path, 2)
    /\ call.err.kind = "not found"

C4_OptionalFieldKeepsValue ==
    (/\ call.op = "Extract"
     /\ call.val = PtrTo(Filled(Assignment))
     /\ ctx.err = NoErr
     /\ Len(ctx.selection) = 1
     /\ IsMap(ctx.selection[1])
     /\ "zz" \notin DOMAIN ctx.selection[1].m
     /\ "k" \in DOMAIN ctx.selection[1].m
     /\ ctx.selection[1].m["k"].kind = "string")
    => /\ call.err = NoErr
       /\ target.type = call.val.type
       /\ target.elem.fields =
             <<"old", ctx.selection[1].m["k"].s, ctx.selection[1].m["k"].s>>

C4_Witness ==
    /\ call.op = "Extract"
    /\ call.val = PtrTo(Filled(Assignment))
    /\ ctx = Context(<<Item("x", 4)>>, NoErr)
    /\ call.err = NoErr
    /\ target.elem.fields = <<"old", "x", "x">>

(***************************************************************************)
(* C5, as claimed: a path with the '?' prefix, of any number of segments,  *)
(* never produces a not-found error, whichever of its keys is missing.     *)
(***************************************************************************)
C5_OptionalNeverNotFound ==
    (call.op \in Getters /\ IsOptionalText(call.q)) => call.err.kind # "not found"

(***************************************************************************)
(* C6: a typed getter returns the value stored at the path when its        *)
(* dynamic type is the getter's and fails otherwise; GetString alone is    *)
(* lenient, returning the empty string and no error for a nil value.       *)
(***************************************************************************)
C6_TypedGetters ==
    \A path \in KeyPaths :
       (call.q = JoinPath(path) /\ Present(root, path)) =>
          LET v == ValueAt(root, path) IN
          /\ call.op = "GetString" =>
                CASE v.kind = "string" -> call.err = NoErr /\ call.val = v.s
                  [] v.kind = "nil" -> call.err = NoErr /\ call.val = ""
                  [] OTHER -> call.err.kind = "not string" /\ call.val = ""
          /\ call.op = "GetNumber" =>
                IF v.kind = "float64"
                THEN call.err = NoErr /\ call.val = v.twice
                ELSE call.err.kind = "not float64" /\ call.val = 0
          /\ call.op = "GetInt" =>
                IF v.kind = "float64"
                THEN call.err = NoErr
                ELSE call.err.kind = "not float64" /\ call.val = 0
          /\ call.op = "GetBool" =>
                IF v.kind = "bool"
                THEN call.err = NoErr /\ call.val = v.b
                ELSE call.err.kind = "not bool" /\ call.val = FALSE

\* GetString on a nil value stored two mappings deep.
C6_Witness ==
    /\ call.op = "GetString"
    /\ \E path \in KeyPaths :
          /\ Len(path) = 2
          /\ call.q = JoinPath(path)
          /\ Present(root, path)
          /\ ValueAt(root, path) = Nil
    /\ call.err = NoErr
    /\ call.val = ""

(***************************************************************************)
(* C7, as claimed: where GetNumber succeeds, GetInt succeeds and returns   *)
(* GetNumber's value truncated toward zero; where GetNumber fails, GetInt  *)
(* fails with the same error and returns 0.                                *)
(***************************************************************************)
TruncatedOf(n) ==
    IF n.err = NoErr
    THEN call.err = NoErr /\ call.val = Truncate(n.val)
    ELSE call.err = n.err /\ call.val = 0

C7_Original ==
    call.op = "GetInt" => TruncatedOf(GetNumber(root, call.q))

(***************************************************************************)
(* C7, amended: where GetNumber succeeds with a value whose integer part   *)
(* the int type can hold, GetInt succeeds and returns that value truncated *)
(* toward zero; with a value outside the range of int GetInt still         *)
(* succeeds, and returns the least or the greatest int; where GetNumber    *)
(* fails, GetInt fails with the same error and returns 0.                  *)
(***************************************************************************)
TruncatedWhereFits(n) ==
    IF n.err = NoErr
    THEN /\ call.err = NoErr
         /\ IF FitsInt(n.val) THEN call.val = Truncate(n.val)
            ELSE call.val \in {MinInt, MaxInt}
    ELSE call.err = n.err /\ call.val = 0

C7_GetIntTruncates ==
    call.op = "GetInt" => TruncatedWhereFits(GetNumber(root, call.q))

\* GetInt of -2.5 is -2.
C7_Witness ==
    /\ call.op = "GetInt"
    /\ Present(root, <<"a", "b">>)
    /\ ValueAt(root, <<"a", "b">>) = Num(-5)
    /\ call.q = "a.b"
    /\ call.err = NoErr
    /\ call.val = -2

(***************************************************************************)
(* The sequences of the claims on filters: the elements stored under       *)
(* "items", all of them mappings with a string k and an integer p.         *)
(***************************************************************************)
ItemsOf == root.m["items"].items

AllGood ==
    /\ IsArr(root.m["items"])
    /\ \A i \in 1..Len(ItemsOf) : ItemsOf[i] \in GoodItems

KeyOf(e) == e.m["k"].s
PrioOf(e) == e.m["p"].twice \div 2

KeyIsX(e) == KeyOf(e) = "x"

(***************************************************************************)
(* C8: for a sequence of mappings that all have a string field k, the      *)
(* path ending in the filter [k=="x"] returns exactly the elements whose k *)
(* is "x", each once and in the order of the sequence, and nothing else.   *)
(***************************************************************************)
C8_FilterIsSubsequence ==
    (call.op = "Get" /\ call.q = "items[k==\"x\"]" /\ AllGood)
    => call.err = NoErr /\ call.val = Arr(SelectSeq(ItemsOf, KeyIsX))

\* Two of three elements survive, with one that does not between them.
C8_Witness ==
    /\ call.op = "Get"
    /\ call.q = "items[k==\"x\"]"
    /\ AllGood
    /\ ItemsOf = <<Item("x", 6), Item("y", 5), Item("x", 4)>>
    /\ call.val = Arr(<<Item("x", 6), Item("x", 4)>>)

(***************************************************************************)
(* C9: the filters of a path are applied in order, each to the survivors   *)
(* of the one before: where a path gives a sequence, the path with [n]     *)
(* appended gives the element at index n of that sequence alone, or the    *)
(* empty sequence and no error when there is none; after [k=="x"], [0]     *)
(* gives the first element whose k is "x", wherever it is in the original. *)
(***************************************************************************)
Survivors(v) == IF IsArr(v) THEN v.items ELSE <<v>>

At(s, n) == IF n < Len(s) THEN <<s[n + 1]>> ELSE <<>>

IndexesSurvivors(n, r) ==
    r.err = NoErr => call.err = NoErr /\ call.val = Arr(At(Survivors(r.val), n))

C9_FiltersApplyInOrder ==
    /\ \A base \in BaseQueries, n \in Indexes :
          (call.op = "Get" /\ call.q = base \o IndexText(n))
          => IndexesSurvivors(n, Get(root, base))
    /\ \A n \in Indexes :
          (call.op = "Get" /\ call.q = "items[k==\"x\"]" \o IndexText(n) /\ AllGood)
          => call.err = NoErr /\ call.val = Arr(At(SelectSeq(ItemsOf, KeyIsX), n))

\* The first survivor is the second element of the original sequence.
C9_Witness ==
    /\ call.op = "Get"
    /\ call.q = "items[k==\"x\"][0]"
    /\ AllGood
    /\ ItemsOf = <<Item("y", 5), Item("x", 4)>>
    /\ call.err = NoErr
    /\ call.val = Arr(<<Item("x", 4)>>)

(***************************************************************************)
(* C10: for a sequence whose elements all hold an integer field and any    *)
(* integer literal n, the filters with <, <=, > and >= select exactly the  *)
(* elements for which the comparison of integers holds, in order: [<n] and *)
(* [>=n] split the sequence in two parts that share nothing and cover it,  *)
(* as do [<=n] and [>n], and [<=n] differs from [<n] by the elements equal *)
(* to n.  The same holds for a string field and string literals in         *)
(* lexicographic order.                                                    *)
(***************************************************************************)
IntHolds(op, a, b) ==
    CASE op = "==" -> a = b
      [] op = "!=" -> a # b
      [] op = "<" -> a < b
      [] op = "<=" -> a <= b
      [] op = ">" -> a > b
      [] op = ">=" -> a >= b

\* The place of each string of the sequences in lexicographic order.
Lexicographic == ("x" :> 1) @@ ("xy" :> 2) @@ ("y" :> 3)

PrioHolds(op, n, s) ==
    LET Test(e) == IntHolds(op, PrioOf(e), n) IN SelectSeq(s, Test)

KeyHolds(op, lit, s) ==
    LET Test(e) == IntHolds(op, Lexicographic[KeyOf(e)], Lexicographic[lit])
    IN SelectSeq(s, Test)

Complement(op) ==
    CASE op = "<" -> ">=" [] op = ">=" -> "<" [] op = "<=" -> ">" [] op = ">" -> "<="
      [] op = "==" -> "!=" [] op = "!=" -> "=="

Range(s) == {s[i] : i \in 1..Len(s)}

\* a and b share no element and hold, between them, every element of s.
Splits(a, b, s) ==
    /\ a.err = NoErr /\ b.err = NoErr
    /\ Range(a.val.items) \cap Range(b.val.items) = {}
    /\ Range(a.val.items) \cup Range(b.val.items) = Range(s)
    /\ Len(a.val.items) + Len(b.val.items) = Len(s)

\* le holds the elements of lt and those the equality selects, and no other.
AddsEqual(lt, le, eq) ==
    /\ lt.err = NoErr /\ le.err = NoErr /\ eq.err = NoErr
    /\ Range(le.val.items) = Range(lt.val.items) \cup Range(eq.val.items)
    /\ Range(lt.val.items) \cap Range(eq.val.items) = {}

PrioQuery(op, n) == "items" \o FilterText("p", op, Itoa(n))
KeyQuery(op, lit) == "items" \o FilterText("k", op, Quote(lit))

C10_RelationalFilters ==
    (call.op = "Get" /\ AllGood) =>
       /\ \A op \in OpTexts, n \in IntLits :
             call.q = PrioQuery(op, n)
             => /\ call.err = NoErr
                /\ call.val = Arr(PrioHolds(op, n, ItemsOf))
                /\ Splits(Result(call.val, call.err),
                          Get(root, PrioQuery(Complement(op), n)), ItemsOf)
                /\ op = "<=" => AddsEqual(Get(root, PrioQuery("<", n)),
                                          Result(call.val, call.err),
                                          Get(root, PrioQuery("==", n)))
       /\ \A op \in OpTexts, lit \in StringLits :
             call.q = KeyQuery(op, lit)
             => /\ call.err = NoErr
                /\ call.val = Arr(KeyHolds(op, lit, ItemsOf))
                /\ Splits(Result(call.val, call.err),
                          Get(root, KeyQuery(Complement(op), lit)), ItemsOf)
                /\ op = "<=" => AddsEqual(Get(root, KeyQuery("<", lit)),
                                          Result(call.val, call.err),
                                          Get(root, KeyQuery("==", lit)))

\* [p<=5] keeps the element with p = 5 that [p<5] leaves out.
C10_Witness ==
    /\ call.op = "Get"
    /\ call.q = "items[p<=5]"
    /\ AllGood
    /\ ItemsOf = <<Item("x", 6), Item("y", 5), Item("x", 4)>>
    /\ call.val = Arr(<<Item("y", 5), Item("x", 4)>>)
    /\ Get(root, "items[p<5]").val = Arr(<<Item("x", 4)>>)

(***************************************************************************)
(* The selection context: Select and Extract.                              *)
(***************************************************************************)
\* What one result adds to the new selection, and the new selection made
\* of the results of q on the elements of sel, in the order of sel.
Contribution(r) == IF IsArr(r.val) THEN r.val.items ELSE <<r.val>>

RECURSIVE Flattened(_, _)
Flattened(sel, q) ==
    IF Len(sel) = 0 THEN <<>>
    ELSE Contribution(Get(Head(sel), q)) \o Flattened(Tail(sel), q)

\* C11: a successful Select(path) replaces the selection by the
\* concatenation, in the order of the old selection, of the results of path
\* on each old element: a sequence result adds its elements one by one, any
\* other result adds itself as one element.
C11_SelectFlattensOneLevel ==
    [][(/\ call'.op = "Select"
        /\ ctx.err = NoErr
        /\ ctx'.err = NoErr)
       => /\ \A i \in 1..Len(ctx.selection) :
               Get(ctx.selection[i], call'.q).err = NoErr
          /\ ctx'.selection = Flattened(ctx.selection, call'.q)]_vars

\* Select("items") on a selection of two elements that each hold a sequence
\* of two has made a selection of four; the inner sequences stay whole.
C11_Witness ==
    /\ call.op = "Select"
    /\ call.q = "items"
    /\ root.m["items"] = Arr(<<Nested, Nested>>)
    /\ ctx.err = NoErr
    /\ ctx.selection = <<Str("x"), Arr(<<Str("y")>>), Str("x"), Arr(<<Str("y")>>)>>

\* C12: once a Select has failed, the context keeps that first error for
\* ever: every later Select changes neither the selection nor the stored
\* error, and every later Extract returns that error and writes nothing to
\* its target.
C12_FirstErrorLatched ==
    [][ctx.err # NoErr
       => /\ ctx' = ctx
          /\ call'.op = "Select" => call'.err = ctx.err
          /\ call'.op = "Extract" => /\ call'.err = ctx.err
                                     /\ target' = call'.val]_vars

\* Extract into a record after a failed Select, on a selection of one
\* element that the record could have been filled from.
C12_Witness ==
    /\ call.op = "Extract"
    /\ call.val = PtrTo(Filled(Assignment))
    /\ target = call.val
    /\ ctx.selection = <<Item("x", 4)>>
    /\ ctx.err # NoErr
    /\ call.err = ctx.err

\* The targets that are a reference to one record.
RecordTargets == {PtrTo(Filled(type)) : type \in StructTypes}

\* C13: Extract into a single-record target succeeds only when the
\* selection holds exactly one element: with two or more elements it fails
\* with the multiple-results error, with none it fails with the
\* empty-selection error, and in both cases no field of the target is
\* written.
C13_SingleRecordNeedsOneElement ==
    (/\ call.op = "Extract"
     /\ ctx.err = NoErr
     /\ call.val \in RecordTargets)
    => /\ call.err = NoErr => Len(ctx.selection) = 1
       /\ Len(ctx.selection) >= 2
            => /\ call.err = Error("selection matches more than one item", "", "")
               /\ target = call.val
       /\ Len(ctx.selection) = 0
            => /\ call.err = Error("empty selection", "", "")
               /\ target = call.val

\* Extract into a record on a selection of two elements, each of which
\* alone would fill the record.
C13_Witness ==
    /\ call.op = "Extract"
    /\ call.val = PtrTo(Filled(Assignment))
    /\ ctx.err = NoErr
    /\ ctx.selection = <<Item("x", 4), Item("y", 5)>>
    /\ call.err.kind = "selection matches more than one item"
    /\ target = call.val

\* Extract into a record on an empty selection.
C13_WitnessEmpty ==
    /\ call.op = "Extract"
    /\ call.val = PtrTo(Filled(Assignment))
    /\ ctx.err = NoErr
    /\ ctx.selection = <<>>
    /\ call.err.kind = "empty selection"

\* The targets that are a reference to a sequence of records or of
\* references to records, and the record type of such a target.
SliceTargets ==
    {v \in Targets :
        /\ v.kind = "ptr"
        /\ ~v.isNil
        /\ v.elem.kind = "slice"
        /\ \/ v.elem.type.elem.kind = "struct"
           \/ /\ v.elem.type.elem.kind = "ptr"
              /\ v.elem.type.elem.elem.kind = "struct"}

RecordType(v) ==
    IF v.elem.type.elem.kind = "ptr" THEN v.elem.type.elem.elem
    ELSE v.elem.type.elem

\* The record type filled from one element alone, and the element of the
\* target v that holds it.
Built(type, sel) == extractStruct(sel, Zero(type))

BuiltElement(v, sel) ==
    IF v.elem.type.elem.kind = "ptr" THEN PtrTo(Built(RecordType(v), sel).val)
    ELSE Built(RecordType(v), sel).val

AllBuild(v, selection) ==
    \A i \in 1..Len(selection) : Built(RecordType(v), selection[i]).err = NoErr

\* On success the target holds what it held, then one record per element
\* of the selection, the i-th made from the i-th element alone.
AppendedInOrder ==
    call.err = NoErr
    => /\ target.kind = "ptr"
       /\ target.elem.items =
            call.val.elem.items
                \o [i \in 1..Len(ctx.selection) |->
                        BuiltElement(call.val, ctx.selection[i])]

\* C14 as stated: Extract into a sequence-of-records target accepts a
\* selection of any number N of elements, zero included, and on success has
\* appended exactly N records, the i-th built from the i-th element alone.
C14_Original ==
    (/\ call.op = "Extract"
     /\ ctx.err = NoErr
     /\ call.val \in SliceTargets)
    => /\ AllBuild(call.val, ctx.selection) => call.err = NoErr
       /\ AppendedInOrder

\* C14: Extract into a sequence-of-records target (or a sequence of
\* references to records) accepts a selection of any number N >= 1 of
\* elements that each build a record, and on success has appended exactly N
\* records to the target, the i-th built from the i-th element alone; on an
\* empty selection it fails with the empty-selection error and leaves the
\* target as it was.
C14_SliceTakesOneOrMore ==
    (/\ call.op = "Extract"
     /\ ctx.err = NoErr
     /\ call.val \in SliceTargets)
    => /\ (Len(ctx.selection) >= 1 /\ AllBuild(call.val, ctx.selection))
            => call.err = NoErr
       /\ Len(ctx.selection) = 0
            => /\ call.err = Error("empty selection", "", "")
               /\ target = call.val
       /\ AppendedInOrder

\* Extract of two elements into a sequence that already held one record.
C14_Witness ==
    /\ call.op = "Extract"
    /\ call.val = PtrTo(SliceVal(Assignment, <<Filled(Assignment)>>))
    /\ ctx.err = NoErr
    /\ ctx.selection = <<Item("x", 4), Item("y", 5)>>
    /\ call.err = NoErr
    /\ target.elem.items = <<Filled(Assignment),
                             StructVal(Assignment, <<"", "x", "x">>),
                             StructVal(Assignment, <<"", "y", "y">>)>>

(***************************************************************************)
(* The typed getters on paths that carry filters.                          *)
(***************************************************************************)
TypedGetters == {"GetString", "GetNumber", "GetInt", "GetBool"}

\* The query texts given to the typed getters that carry a filter.
FilteredTexts == TypedFilterQueries \ {"items"}

\* What the typed getter of the call returns for the one value v, and what
\* it returns when it fails with a type mismatch.
TypedValueOf(v) ==
    CASE call.op = "GetString" ->
            (v.kind \in {"string", "nil"}
                /\ call.err = NoErr
                /\ call.val = IF v.kind = "string" THEN v.s ELSE "")
      [] call.op = "GetNumber" ->
            (v.kind = "float64" /\ call.err = NoErr /\ call.val = v.twice)
      [] call.op = "GetInt" -> (v.kind = "float64" /\ call.err = NoErr)
      [] call.op = "GetBool" ->
            (v.kind = "bool" /\ call.err = NoErr /\ call.val = v.b)

MismatchOf(type) ==
    CASE call.op = "GetString" ->
            call.err = Error("not string", call.q, type) /\ call.val = ""
      [] call.op \in {"GetNumber", "GetInt"} ->
            call.err = Error("not float64", call.q, type) /\ call.val = 0
      [] call.op = "GetBool" ->
            call.err = Error("not bool", call.q, type) /\ call.val = FALSE

\* What the typed getter makes of the result r of the path.
FilteredResult(r) ==
    IF r.err # NoErr THEN call.err = r.err ELSE MismatchOf("[]interface {}")

HasType(v) ==
    CASE call.op = "GetString" -> v.kind \in {"string", "nil"}
      [] call.op \in {"GetNumber", "GetInt"} -> v.kind = "float64"
      [] call.op = "GetBool" -> v.kind = "bool"

OneSurvivor(r) == r.err = NoErr /\ Len(r.val.items) = 1

\* C15 as stated: a typed getter called with a path that carries filters
\* returns the typed value of the element when exactly one element survives
\* the filters, and an error when none or several survive.
C15_Original ==
    (call.op \in TypedGetters /\ call.q \in FilteredTexts)
    => IF OneSurvivor(Get(root, call.q))
       THEN HasType(Get(root, call.q).val.items[1])
                => TypedValueOf(Get(root, call.q).val.items[1])
       ELSE call.err # NoErr

\* C15: a typed getter called with a path that carries filters never
\* returns a value: when the path fails the getter returns that error, and
\* when the path succeeds its result is a sequence, whether none, one or
\* several elements survive, and the getter returns the type-mismatch error
\* for a sequence.
C15_FilteredPathIsNeverTyped ==
    (call.op \in TypedGetters /\ call.q \in FilteredTexts)
    => /\ call.err # NoErr
       /\ FilteredResult(Get(root, call.q))

\* GetString with [0] on a sequence whose one element is a string.
C15_Witness ==
    /\ call.op = "GetString"
    /\ call.q = "items[0]"
    /\ root.m["items"] = Arr(<<Str("x")>>)
    /\ call.err = Error("not string", "items[0]", "[]interface {}")
    /\ call.val = ""

\* The targets that are not a non-nil reference to a record or to a
\* sequence of records or of references to records.
InvalidTargets == Targets \ (RecordTargets \cup SliceTargets)

\* C16: Extract on a context without a stored error returns an error
\* value, and does not crash, for every target that is not a non-nil
\* reference to a record or to a sequence of records: an untyped nil, a
\* value that is not a pointer, a nil pointer, a pointer to a pointer, to a
\* scalar or to a sequence of scalars.
C16_InvalidTargetIsAnError ==
    (/\ call.op = "Extract"
     /\ ctx.err = NoErr
     /\ call.val \in InvalidTargets)
    => /\ call.err # NoErr
       /\ call.err.kind # "panic"
       /\ target = call.val

(***************************************************************************)
(* The query texts outside the grammar.                                    *)
(***************************************************************************)
\* The empty text, a '?' with no key, a trailing '.', an unclosed '[', an
\* unterminated string, a lone '=', an unexpected token after a key.
MalformedTexts ==
    {"", "?", "items.", "items[", "items[0", "items[k==", "items[k==\"x]",
     "\"items", "items=", "items=0", "items]", "items[]", "items[k=\"x\"]",
     "items[0]]", "items[0].k"}

\* C17: every query text that does not match the path grammar is rejected
\* with an error and never accepted as a path: the empty text, a '?' with
\* no key, a trailing '.', an unclosed '[', an unterminated double-quoted
\* string, a lone '=' or any unexpected token after a key.
C17_MalformedTextRejected ==
    (call.op \in Getters /\ call.q \in MalformedTexts) => call.err # NoErr

(***************************************************************************)
(* The chains of comparatives inside one filter.                           *)
(***************************************************************************)
\* The comparatives of the two chains of the queries, as trees.
KeyIs(lit) ==
    Comparative(Atom("tString", "k", 0), "tEq", <<Atom("tString", lit, 0)>>)

PrioIs(op, n) ==
    Comparative(Atom("tString", "p", 0), op, <<Atom("tInt", "", n)>>)

OrAndText == "items[k==\"x\"||k==\"y\"&&p>5]"
AndOrText == "items[p==4&&k==\"x\"||k==\"y\"]"

\* A tree whose logical nodes each have two children, the right one a
\* comparative: the chain nested to the left.
RECURSIVE LeftNested(_)
LeftNested(f) ==
    \/ f.node = "comparative"
    \/ /\ f.node = "logical"
       /\ DOMAIN f = {"node", "Left", "Op", "Right"}
       /\ f.Right.node = "comparative"
       /\ LeftNested(f.Left)

FiltersLeftNested(p) ==
    p.err = NoErr => \A i \in 1..Len(p.val.filters) : LeftNested(p.val.filters[i])

OrThenAnd(e) == (KeyOf(e) = "x" \/ KeyOf(e) = "y") /\ PrioOf(e) > 5
AndThenOr(e) == (PrioOf(e) = 4 /\ KeyOf(e) = "x") \/ KeyOf(e) = "y"

\* C18: inside one filter a chain of comparatives joined by && and || is
\* parsed to the left, with no precedence between && and ||: the tree of
\* c1 op1 c2 op2 c3 is ((c1 op1 c2) op2 c3), every logical node has two
\* children, and 'a || b && c' keeps the elements for which (a || b) && c.
C18_LogicalChainLeftAssociative ==
    call.op = "Get"
    => /\ FiltersLeftNested(parse(call.q))
       /\ call.q = OrAndText
            => /\ parse(call.q).val.filters =
                    <<Logical(Logical(KeyIs("x"), "tOr", KeyIs("y")),
                              "tAnd", PrioIs("tGt", 5))>>
               /\ AllGood
                    => /\ call.err = NoErr
                       /\ call.val = Arr(SelectSeq(ItemsOf, OrThenAnd))
       /\ call.q = AndOrText
            => /\ parse(call.q).val.filters =
                    <<Logical(Logical(PrioIs("tEq", 4), "tAnd", KeyIs("x")),
                              "tOr", KeyIs("y"))>>
               /\ AllGood
                    => /\ call.err = NoErr
                       /\ call.val = Arr(SelectSeq(ItemsOf, AndThenOr))

\* k is "x" or k is "y" and p is over 5, on elements of which || && with
\* && first would keep two and the chain keeps one.
C18_Witness ==
    /\ call.op = "Get"
    /\ call.q = OrAndText
    /\ root.m["items"] = Arr(<<Item("x", 4), Item("y", 5), Item("x", 6)>>)
    /\ call.err = NoErr
    /\ call.val = Arr(<<Item("x", 6)>>)

(***************************************************************************)
(* The filter that is a single atom.                                       *)
(***************************************************************************)
\* The candidates of a filter on "items": the elements of the sequence, or
\* the value itself when it is not a sequence.
Candidates == Survivors(root.m["items"])

IndexNode(atom) == Comparative(atom, atom.Type, <<>>)

AtomTexts == {"items[k]", "items[\"k\"]"}

\* C19: a filter holding a single atom and no comparison operator is an
\* INDEX node.  With an integer atom n it is true for exactly the candidate
\* at position n of the sequence the filter is applied to: [n] keeps at
\* most one element, none when n is past the end.  With a string or
\* identifier atom the query parses, and its evaluation fails with an
\* error as soon as there is a candidate.
C19_SingleAtomIsIndex ==
    call.op = "Get"
    => /\ \A n \in Indexes :
            call.q = "items" \o IndexText(n)
            => /\ parse(call.q).val.filters = <<IndexNode(Atom("tInt", "", n))>>
               /\ call.err = NoErr
               /\ call.val = Arr(At(Candidates, n))
               /\ Len(call.val.items) <= 1
               /\ n >= Len(Candidates) => call.val = Arr(<<>>)
       /\ call.q \in AtomTexts
            => /\ parse(call.q).err = NoErr
               /\ parse(call.q).val.filters = <<IndexNode(Atom("tString", "k", 0))>>
               /\ IF Len(Candidates) = 0
                  THEN call.err = NoErr /\ call.val = Arr(<<>>)
                  ELSE /\ call.err =
                            Error("Comparative.Eval not implemented yet", "string", "")
                       /\ call.val = Nil

\* [1] on a sequence of three keeps the second element.
C19_Witness ==
    /\ call.op = "Get"
    /\ call.q = "items[1]"
    /\ root.m["items"] = Arr(<<Item("x", 4), Item("y", 5), Item("x", 6)>>)
    /\ call.err = NoErr
    /\ call.val = Arr(<<Item("y", 5)>>)

\* [1] on a sequence of one keeps nothing.
C19_WitnessPastEnd ==
    /\ call.op = "Get"
    /\ call.q = "items[1]"
    /\ root.m["items"] = Arr(<<Item("x", 4)>>)
    /\ call.err = NoErr
    /\ call.val = Arr(<<>>)

\* [k] on a sequence of one fails.
C19_WitnessSymbol ==
    /\ call.op = "Get"
    /\ call.q = "items[k]"
    /\ root.m["items"] = Arr(<<Item("x", 4)>>)
    /\ call.err.kind = "Comparative.Eval not implemented yet"

(***************************************************************************)
(* The comparison filters on elements they cannot read.                    *)
(***************************************************************************)
\* The error of reading field as a string, and as an integer, on the
\* element e: "" when e can be read.
StringFieldError(field, e) ==
    IF ~IsMap(e) THEN "can't index"
    ELSE IF field \notin DOMAIN e.m THEN "not found"
    ELSE IF e.m[field].kind = "float64" THEN "not string"
    ELSE ""

IntFieldError(field, e) ==
    IF ~IsMap(e) THEN "can't index"
    ELSE IF field \notin DOMAIN e.m THEN "not found"
    ELSE IF e.m[field].kind \in {"string", "nil"} THEN "not float64"
    ELSE ""

\* The errors of the candidates, in the order of the candidates, and the
\* first of them that is an error.
StringFieldErrors == [i \in 1..Len(Candidates) |-> StringFieldError("k", Candidates[i])]
IntFieldErrors == [i \in 1..Len(Candidates) |-> IntFieldError("p", Candidates[i])]

IsError(kind) == kind # ""

FirstError(errors) == Head(SelectSeq(errors, IsError))

\* The call failed with an error of that kind and returned no element.
FailsWith(errors) ==
    SelectSeq(errors, IsError) # <<>>
    => /\ call.err.kind = FirstError(errors)
       /\ call.val = Nil

\* C20: while a comparison filter [k op lit] is applied, if any candidate
\* lacks field k, is not a mapping, or holds a k whose type does not fit
\* the literal (a number against a string literal, a string or null
\* against an integer literal), the whole query fails with an error and
\* returns no elements: the offending element is never skipped.
C20_UnreadableCandidateFailsQuery ==
    call.op = "Get"
    => /\ \A op \in OpTexts, lit \in StringLits :
            call.q = KeyQuery(op, lit) => FailsWith(StringFieldErrors)
       /\ \A op \in OpTexts, n \in IntLits :
            call.q = PrioQuery(op, n) => FailsWith(IntFieldErrors)

\* [k!="x"] on a sequence whose first element passes and whose second has
\* no k.
C20_Witness ==
    /\ call.op = "Get"
    /\ call.q = KeyQuery("!=", "x")
    /\ root.m["items"] = Arr(<<Item("y", 5), Map("p" :> Num(10))>>)
    /\ call.err.kind = "not found"
    /\ call.val = Nil

\* [p>=5] on a sequence whose second element has a null p.
C20_WitnessNull ==
    /\ call.op = "Get"
    /\ call.q = PrioQuery(">=", 5)
    /\ root.m["items"] = Arr(<<Item("y", 5), Map(("k" :> Nil) @@ ("p" :> Nil))>>)
    /\ call.err.kind = "not float64"
    /\ call.val = Nil

(***************************************************************************)
(* The steps of a path on values that are not mappings.                    *)
(***************************************************************************)
\* Segment i of path is the first that meets a value that is not a
\* mapping: the segments before it are present and lead to that value.
BlockedAt(v, path, i) ==
    /\ Present(v, Prefix(path, i - 1))
    /\ ~IsMap(ValueAt(v, Prefix(path, i - 1)))

\* The path as the errors print it: every key quoted.
RECURSIVE QuotedPath(_)
QuotedPath(path) ==
    IF Len(path) = 1 THEN Quote(path[1])
    ELSE Quote(path[1]) \o "." \o QuotedPath(Tail(path))

\* The call failed at segment i with the type mismatch that names the path
\* up to that segment and the type of the value met.
CannotIndexAt(path, i, mark) ==
    /\ call.err = Error("can't index", mark \o QuotedPath(Prefix(path, i)),
                        GoType(ValueAt(root, Prefix(path, i - 1))))
    /\ call.val = Nil

\* C21: the steps of a path are evaluated from the first key to the last,
\* and at every step the value indexed must be a mapping: when the root or
\* the value an earlier step reached is a sequence, a string, a number, a
\* boolean or null, the evaluation fails with the type-mismatch error of
\* that step, and no later key is looked up.
C21_StepNeedsMapping ==
    call.op = "Get"
    => \A path \in KeyPaths :
          \A i \in 1..Len(path) :
             BlockedAt(root, path, i)
             => /\ call.q = JoinPath(path) => CannotIndexAt(path, i, "")
                /\ call.q = "?" \o JoinPath(path) => CannotIndexAt(path, i, "?")

\* A path of three keys whose first key holds a string.
C21_Witness ==
    /\ call.op = "Get"
    /\ \E path \in KeyPaths :
          /\ Len(path) = 3
          /\ call.q = JoinPath(path)
          /\ BlockedAt(root, path, 2)
          /\ ValueAt(root, Prefix(path, 1)) = Str("x")
          /\ call.err = Error("can't index", QuotedPath(Prefix(path, 2)), "string")

(***************************************************************************)
(* The fields of a record, one by one.                                     *)
(***************************************************************************)
\* What Extract does with the field f on the element e: it leaves it
\* alone, fails on it, or sets it.
FieldOutcome(e, f) ==
    IF f.Tag = "" THEN "skip"
    ELSE IF f.Kind # "string" THEN "fail"
    ELSE IF GetString(e, f.Tag).err = ErrorOptionalMissing THEN "skip"
    ELSE IF GetString(e, f.Tag).err # NoErr THEN "fail"
    ELSE "set"

\* The error of the field Extract fails on.
FieldError(e, f) ==
    IF f.Kind # "string" THEN Error("field type not supported", "", f.Kind)
    ELSE GetString(e, f.Tag).err

\* The fields Extract fails on, in the order of the declaration.
FailingFields(e, type) ==
    {i \in 1..Len(type.fields) : FieldOutcome(e, type.fields[i]) = "fail"}

\* The first field Extract fails on, one past the last field when there is
\* none.
FirstFailing(e, type) ==
    IF FailingFields(e, type) = {} THEN Len(type.fields) + 1
    ELSE CHOOSE i \in FailingFields(e, type) :
            \A j \in FailingFields(e, type) : i <= j

\* The fields of the record old after Extract from the element e.
FieldsAfter(e, old) ==
    [i \in 1..Len(old.type.fields) |->
        IF /\ i < FirstFailing(e, old.type)
           /\ FieldOutcome(e, old.type.fields[i]) = "set"
        THEN GetString(e, old.type.fields[i].Tag).val
        ELSE old.fields[i]]

\* C22: Extract into one record goes through the annotated fields in the
\* order of their declaration and does not roll back: when it fails at an
\* annotated field (an error of the getter, or a field that is not a
\* string), every annotated field before it holds its extracted value, the
\* failing field and the fields after it keep the values they had, and a
\* field without annotation is neither written nor type-checked.
C22_FieldsInOrderNoRollback ==
    (/\ call.op = "Extract"
     /\ ctx.err = NoErr
     /\ call.val \in RecordTargets
     /\ Len(ctx.selection) = 1)
    => /\ target.kind = "ptr"
       /\ target.elem.type = call.val.elem.type
       /\ target.elem.fields = FieldsAfter(ctx.selection[1], call.val.elem)
       /\ IF FailingFields(ctx.selection[1], call.val.elem.type) = {}
          THEN call.err = NoErr
          ELSE call.err =
                 FieldError(ctx.selection[1],
                            call.val.elem.type.fields[
                                FirstFailing(ctx.selection[1], call.val.elem.type)])

\* The getter fails on the third field: the first is set, the second has no
\* annotation and is not a string, the third and the fourth keep their
\* values.
C22_Witness ==
    /\ call.op = "Extract"
    /\ call.val = PtrTo(Filled(Record))
    /\ ctx.err = NoErr
    /\ ctx.selection = <<Item("x", 4)>>
    /\ call.err.kind = "not string"
    /\ target.elem.fields = <<"x", 7, "old", "old">>

\* The third field is annotated and is not a string.
C22_WitnessType ==
    /\ call.op = "Extract"
    /\ call.val = PtrTo(Filled(Typed))
    /\ ctx.err = NoErr
    /\ ctx.selection = <<Item("x", 4)>>
    /\ call.err = Error("field type not supported", "", "int")
    /\ target.elem.fields = <<"x", "old", 7, "old">>

(***************************************************************************)
(* The pushed-back token of the lexer.                                     *)
(***************************************************************************)
\* g is the result of a Get: pushing its token back and calling Get again
\* returns the same token, reads no input and leaves the slot empty, and
\* the Get after that reads what comes next in the text.
GetAfterUnget(g, again) ==
    /\ again.err = NoErr
    /\ again.tok = g.tok
    /\ again.l.pos = g.l.pos
    /\ again.l.unget = <<>>
    /\ LexGet(again.l).tok = LexGet(g.l).tok
    /\ LexGet(again.l).err = LexGet(g.l).err
    /\ LexGet(again.l).l.pos = LexGet(g.l).l.pos

UngetRestores(g) == g.err = NoErr => GetAfterUnget(g, LexGet(LexUnget(g.l, g.tok)))

\* The lexer at the end of a parse: every Unget found the slot empty, and
\* after a successful parse no token is left in the slot.
NothingPending(p) ==
    /\ \A i \in 1..Len(p.l.ungets) : p.l.ungets[i] = 0
    /\ p.err = NoErr => p.l.unget = <<>> /\ p.l.pos = Len(p.l.input)

\* C23: the lexer holds at most one pushed-back token.  A Get that follows
\* Unget(t) returns t without reading input and empties the slot, and
\* during a parse the parser never calls Unget while a pushed-back token is
\* pending, so no token of the query is lost or delivered twice.
C23_OneTokenPushBack ==
    call.op \in Getters
    => /\ UngetRestores(LexGet(newLexer(call.q)))
       /\ NothingPending(parse(call.q))

\* A parse that has called Unget twice: on the '[' after the key and on the
\* ']' after the index.
C23_Witness ==
    /\ call.op = "Get"
    /\ call.q = "items[0]"
    /\ call.err = NoErr
    /\ parse(call.q).l.ungets = <<0, 0>>

(***************************************************************************)
(* The loops of the parser and of the evaluation.                          *)
(***************************************************************************)
\* How far the lexer of the call c is in its text: twice the runes read,
\* less one for a token that is pushed back.  It grows with every token
\* the parser takes, from the text or from the slot.
Consumed(c) == 2 * c.l.pos - Len(c.l.unget)

\* The step goes round a loop of the parser again: the key loop, the loop
\* of parseLogical, or the filter loop, one iteration of which runs from
\* the '[' to the ']'.
GoesRound ==
    /\ call # NoCall
    /\ call' # NoCall
    /\ \/ call.pc = "keys" /\ call'.pc = "keys"
       \/ call.pc = "filters" /\ call'.pc = "logical"
       \/ call.pc = "logical" /\ call'.pc \in {"logical", "filters"}

\* The step is in the loops of the evaluation: it applies the filter fi to
\* the item idx, or goes to the next filter.
AppliesFilter ==
    /\ call # NoCall
    /\ call' # NoCall
    /\ call.pc = "items"
    /\ call'.pc = "items"

\* The items the first j filters of the query keep, and the number of
\* items the filters 1 to n are applied to, one after the other.
KeptBy(filters, j) == ApplyFilters(SubSeq(filters, 1, j), Candidates).val.items

RECURSIVE ItemsTested(_, _)
ItemsTested(filters, n) ==
    IF n = 0 THEN 0
    ELSE ItemsTested(filters, n - 1) + Len(KeptBy(filters, n - 1))

\* The finished call gave what Get gives, and when it succeeded it has
\* called filter.Eval once for every filter and every item the filters
\* before it kept.
SameAsGet ==
    At_("done")
    => /\ call.val = Get(root, call.q).val
       /\ call.err = Get(root, call.q).err
       /\ call.err = NoErr
            => call.evals = ItemsTested(call.query.filters, Len(call.query.filters))

\* C24: parsing and evaluating a query text on a JSON value terminates
\* with a result or an error.  Every iteration of the key loop, of the
\* filter loop and of the logical-operator loop after which the loop goes
\* round again has taken at least one token, and the evaluation applies
\* each filter once to each element the filters before it kept.
C24_GetTerminates ==
    /\ Running ~> At_("done")
    /\ []HasStep
    /\ [][GoesRound => Consumed(call') > Consumed(call)]_vars
    /\ [][AppliesFilter
          => \/ /\ call'.fi = call.fi
                /\ call'.idx = call.idx + 1
                /\ call'.items = call.items
             \/ /\ call'.fi = call.fi + 1
                /\ call'.idx = 0
                /\ call.idx = Len(call.items)
                /\ call'.items = call.filtered]_vars
    /\ []SameAsGet

\* A finished call that went three times round the loop of parseLogical
\* and applied its filter to two items.
C24_Witness ==
    /\ At_("done")
    /\ call.q = "items[k==\"x\"||k==\"y\"&&p>4]"
    /\ call.err = NoErr
    /\ root = Items_(Arr(<<Item("x", 4), Item("y", 5)>>))
    /\ call.evals = 2
    /\ call.val = Arr(<<Item("y", 5)>>)

(***************************************************************************)
(* The order of the failure conditions of Extract.                         *)
(***************************************************************************)
\* A target that is a value of a type but not a pointer, or a nil pointer;
\* a target that is a pointer to something.
BadTarget(v) == v.kind # "nil" /\ (v.kind # "ptr" \/ v.isNil)
GoodPointer(v) == v.kind = "ptr" /\ ~v.isNil

\* The errors of extract on what the target points to.
ShapeErrors ==
    {"pointers not implemented yet", "pointed", "slice with invalid pointer type",
     "unsupport slice element type"}

\* C25: Extract checks its failure conditions in a fixed order.  The
\* stored error of the context is returned whatever the target and the
\* selection; without one, a target that is not a pointer or is a nil
\* pointer is reported whatever the selection; then an empty selection is
\* reported whatever the target points to; only then the errors on what
\* the target points to and on a selection of several elements.
C25_ExtractErrorOrder ==
    call.op = "Extract"
    => /\ ctx.err # NoErr => call.err = ctx.err
       /\ (ctx.err = NoErr /\ BadTarget(call.val))
            => call.err = Error("Extract", "", TypeString(call.val.type))
       /\ (ctx.err = NoErr /\ GoodPointer(call.val) /\ Len(ctx.selection) = 0)
            => call.err = Error("empty selection", "", "")
       /\ (ctx.err = NoErr /\ GoodPointer(call.val) /\ Len(ctx.selection) # 0)
            => /\ call.val \in InvalidTargets => call.err.kind \in ShapeErrors
               /\ (call.val \in RecordTargets /\ Len(ctx.selection) # 1)
                    => call.err = Error("selection matches more than one item", "", "")
               /\ call.err.kind \notin {"Extract", "empty selection"}

\* Extract into a pointer to an int on an empty selection: the empty
\* selection is reported, not the target.
C25_Witness ==
    /\ call.op = "Extract"
    /\ ctx.err = NoErr
    /\ ctx.selection = <<>>
    /\ call.val = PtrTo(ScalarVal("int"))
    /\ call.err = Error("empty selection", "", "")

\* Extract into a nil pointer on a context with a stored error.
C25_WitnessLatched ==
    /\ call.op = "Extract"
    /\ ctx.err # NoErr
    /\ call.val = NilPtr(Assignment)
    /\ call.err = ctx.err

\* Extract into a value that is not a pointer on an empty selection.
C25_WitnessTarget ==
    /\ call.op = "Extract"
    /\ ctx.err = NoErr
    /\ ctx.selection = <<>>
    /\ call.val = Filled(Assignment)
    /\ call.err = Error("Extract", "", "Assignment")

(***************************************************************************)
(* Extract into a sequence, when an element fails.                         *)
(***************************************************************************)
\* The first element of the selection that does not build a record of the
\* target v: 0 when all build.
FirstUnbuilt(v, selection) ==
    IF AllBuild(v, selection) THEN 0
    ELSE CHOOSE i \in 1..Len(selection) :
            /\ Built(RecordType(v), selection[i]).err # NoErr
            /\ \A j \in 1..(i - 1) : Built(RecordType(v), selection[j]).err = NoErr

\* C26: when Extract into a sequence target fails while it builds the
\* record of some element of the selection, it returns the error of that
\* element and the target sequence is as it was before the call: no record
\* is appended, not even those built for the elements before.
C26_FailedSliceExtractAppendsNothing ==
    (/\ call.op = "Extract"
     /\ ctx.err = NoErr
     /\ call.val \in SliceTargets
     /\ FirstUnbuilt(call.val, ctx.selection) # 0)
    => /\ call.err =
            Built(RecordType(call.val),
                  ctx.selection[FirstUnbuilt(call.val, ctx.selection)]).err
       /\ target = call.val

\* Extract of two elements into a sequence that held one record: the first
\* element builds a record, the second has no key k.
C26_Witness ==
    /\ call.op = "Extract"
    /\ ctx.err = NoErr
    /\ call.val = PtrTo(SliceVal(Assignment, <<Filled(Assignment)>>))
    /\ ctx.selection = <<Item("x", 4), Map("p" :> Num(10))>>
    /\ Built(Assignment, ctx.selection[1]).err = NoErr
    /\ call.err = Error("not found", "\"k\"", "")
    /\ target.elem.items = <<Filled(Assignment)>>

(***************************************************************************)
(* Select on an empty selection.                                           *)
(***************************************************************************)
EmptySelection == ctx.selection = <<>> /\ ctx.err = NoErr

\* C27: Select on a context with an empty selection and no stored error
\* does not parse or evaluate its path.  For every path text, the invalid
\* ones included, the selection stays empty and no error is stored, so the
\* context stays as it is under every later call, and Extract into a
\* pointer that is not nil reports the empty selection.
C27_SelectOnEmptySelection ==
    /\ [][(EmptySelection /\ call'.op = "Select")
            => ctx' = ctx /\ call'.err = NoErr]_vars
    /\ [][EmptySelection => EmptySelection']_vars
    /\ []((EmptySelection /\ call.op = "Extract" /\ GoodPointer(call.val))
            => /\ call.err = Error("empty selection", "", "")
               /\ target = call.val)

\* Select of a text that does not parse, on an empty selection.
C27_Witness ==
    /\ call.op = "Select"
    /\ call.q = "items["
    /\ parse(call.q).err # NoErr
    /\ EmptySelection

====
